---- MODULE Spec2Model ----
(***************************************************************************)
(* A model of the request/response validation engine of                    *)
(* openapi-validator-rs.  Strings whose characters matter (paths, method   *)
(* tokens, reference strings) are sequences of one-character strings.      *)
(* Option<T> is None / Some(x), ReferenceOr<T> is Item(x) / Reference(r),  *)
(* Result<T, ()> is Ok(x) / Err, and a panic (unwrap, index, todo!) is the *)
(* third outcome Panic.                                                    *)
(***************************************************************************)
EXTENDS Integers, Sequences, FiniteSets, TLC

VARIABLES
    api,                \* Validator.api: the specification, fixed at construction
    universe,           \* which family of requests the environment draws from
    request,            \* the request of the call in progress (or of the last call)
    pc,                 \* position of validate_request: "idle", a stage name, or "done"
    validator,          \* the intermediate struct handed from one stage to the next
    evaluated,          \* the stages the call has evaluated, in order, each with
                        \* the status and the value it returned
    outcome,            \* what validate_request returned: "None" while running
    response_validator, \* the ResponseValidator handle a successful call yields
    response_outcome,   \* what the last validate_response returned
    input_schema,       \* the schema to_json_schema is called on
    translated          \* what the last to_json_schema call returned, and of
                        \* which of the two translators of the repository

vars == <<api, universe, request, pc, validator, evaluated, outcome,
          response_validator, response_outcome, input_schema, translated>>

----------------------------------------------------------------------------
(* Option, ReferenceOr, Result *)

None == [kind |-> "None"]
Some(x) == [kind |-> "Some", value |-> x]
Item(x) == [kind |-> "Item", item |-> x]
Reference(r) == [kind |-> "Reference", reference |-> r]
Ok(x) == [status |-> "Ok", value |-> x]
Err == [status |-> "Err"]
Panic == [status |-> "Panic"]
\* unbounded recursion: the call never returns (stack exhaustion)
Diverge == [status |-> "Diverge"]

Min(S) == CHOOSE x \in S : \A y \in S : x <= y

----------------------------------------------------------------------------
(* Path matcher *)

\* str::split(c): the components between the separators, empty ones included
RECURSIVE split(_, _)
split(s, c) ==
    IF \A i \in 1..Len(s) : s[i] # c
    THEN <<s>>
    ELSE LET i == Min({j \in 1..Len(s) : s[j] = c})
         IN  <<SubSeq(s, 1, i - 1)>> \o split(SubSeq(s, i + 1, Len(s)), c)

\* faulty variant: the empty components are kept
split_path_keep_empty(path) == split(path, "/")

component_not_empty(component) == component # <<>>

split_path(path) == SelectSeq(split(path, "/"), component_not_empty)

\* the regular expression ^\{[^}]*}$
is_parameter_segment(segment) ==
    /\ Len(segment) >= 2
    /\ segment[1] = "{"
    /\ segment[Len(segment)] = "}"
    /\ \A i \in 2..(Len(segment) - 1) : segment[i] # "}"

Fixed(literal) == [kind |-> "Fixed", literal |-> literal]
Parameter(name) == [kind |-> "Parameter", name |-> name]

segment_from_str(segment) ==
    IF is_parameter_segment(segment)
    THEN Parameter(SubSeq(segment, 2, Len(segment) - 1))
    ELSE Fixed(segment)

list_from_str(path) ==
    LET components == split_path(path)
    IN  [i \in 1..Len(components) |-> segment_from_str(components[i])]

matches(spec_segment, request_segment) ==
    IF spec_segment.kind = "Fixed"
    THEN spec_segment.literal = request_segment
    ELSE TRUE

\* faulty variant: the length check compares with <= (a prefix match)
list_matches_prefix(spec_segments, request_segments) ==
    /\ Len(spec_segments) <= Len(request_segments)
    /\ \A i \in 1..Len(spec_segments) : matches(spec_segments[i], request_segments[i])

list_matches(spec_segments, request_segments) ==
    IF Len(spec_segments) # Len(request_segments)
    THEN FALSE
    ELSE \A i \in 1..Len(spec_segments) : matches(spec_segments[i], request_segments[i])

\* faulty variant: an earlier pair is kept when a later pair has its key
RECURSIVE collect_map_first_wins(_)
collect_map_first_wins(pairs) ==
    IF pairs = <<>>
    THEN <<>>
    ELSE LET after == collect_map_first_wins(Tail(pairs))
             first == Head(pairs)
         IN  [k \in (DOMAIN after) \cup {first[1]} |->
                 IF k = first[1] THEN first[2] ELSE after[k]]

\* HashMap::from_iter over (key, value) pairs: a later pair replaces an earlier one
RECURSIVE collect_map(_)
collect_map(pairs) ==
    IF pairs = <<>>
    THEN <<>>
    ELSE LET before == collect_map(SubSeq(pairs, 1, Len(pairs) - 1))
             last == pairs[Len(pairs)]
         IN  [k \in (DOMAIN before) \cup {last[1]} |->
                 IF k = last[1] THEN last[2] ELSE before[k]]

is_parameter_pair(pair) == pair[1].kind = "Parameter"

\* faulty variant: the Fixed segments are filtered out before the zip
extract_path_parameters_filter_first(spec_segments, request_segments) ==
    LET variables == SelectSeq(spec_segments, LAMBDA segment : segment.kind = "Parameter")
    IN  collect_map([i \in 1..Min({Len(variables), Len(request_segments)}) |->
                        <<variables[i].name, request_segments[i]>>])

extract_path_parameters(spec_segments, request_segments) ==
    LET zipped == [i \in 1..Min({Len(spec_segments), Len(request_segments)}) |->
                      <<spec_segments[i], request_segments[i]>>]
        kept == SelectSeq(zipped, is_parameter_pair)
    IN  collect_map([i \in 1..Len(kept) |-> <<kept[i][1].name, kept[i][2]>>])

\* the positions of api.paths.paths whose template matches the request path
matching_paths(paths, request_segments) ==
    {i \in 1..Len(paths) : list_matches(list_from_str(paths[i].path), request_segments)}

\* faulty variant: the last matching template wins
find_last(S) == CHOOSE x \in S : \A y \in S : y <= x

\* Iterator::find: the first position, in iteration order
find_first(S) == Min(S)

validate_path(the_api, request_path) ==
    LET request_segments == split_path(request_path)
        found == matching_paths(the_api.paths, request_segments)
    IN  IF found = {}
        THEN Err
        ELSE LET entry == the_api.paths[find_first(found)]
             IN  IF entry.item.kind # "Item"
                 THEN Panic
                 ELSE Ok([spec_path |-> entry.path,
                          path_spec |-> entry.item.item,
                          components |-> the_api.components,
                          path_parameters |->
                              extract_path_parameters(list_from_str(entry.path),
                                                      request_segments)])

----------------------------------------------------------------------------
(* Reference resolver *)

SCHEMAS_PATH == <<"#/components/schemas/">>
PARAMETERS_PATH == <<"#/components/parameters/">>
REQUEST_BODIES_PATH == <<"#/components/requestBodies/">>

\* str::trim_start_matches: every leading repetition of the prefix is removed
RECURSIVE trim_start_matches(_, _)
trim_start_matches(s, prefix) ==
    IF Len(prefix) > 0 /\ Len(s) >= Len(prefix) /\ SubSeq(s, 1, Len(prefix)) = prefix
    THEN trim_start_matches(SubSeq(s, Len(prefix) + 1, Len(s)), prefix)
    ELSE s

\* faulty variant: a name met again is reported as a defect
RECURSIVE item_or_fetch_detects_cycle(_, _, _, _, _)
item_or_fetch_detects_cycle(self, components, component_field, component_path, followed) ==
    IF self.kind = "Item"
    THEN Ok(self.item)
    ELSE IF components.kind = "None"
    THEN Panic
    ELSE LET section == components.value[component_field]
             name == trim_start_matches(self.reference, component_path)
         IN  IF name \notin DOMAIN section
             THEN Panic
             ELSE IF followed >= Cardinality(DOMAIN section)
             THEN Panic
             ELSE item_or_fetch_detects_cycle(section[name], components, component_field,
                                              component_path, followed + 1)

\* One expansion of the macro item_or_fetch_impl.  components.unwrap() and
\* index() panic; a chain that follows more references than the section has
\* names has come back to a name it already visited and recurses for ever.
RECURSIVE item_or_fetch_from(_, _, _, _, _)
item_or_fetch_from(self, components, component_field, component_path, followed) ==
    IF self.kind = "Item"
    THEN Ok(self.item)
    ELSE IF components.kind = "None"
    THEN Panic
    ELSE LET section == components.value[component_field]
             name == trim_start_matches(self.reference, component_path)
         IN  IF name \notin DOMAIN section
             THEN Panic
             ELSE IF followed >= Cardinality(DOMAIN section)
             THEN Diverge
             ELSE item_or_fetch_from(section[name], components, component_field,
                                     component_path, followed + 1)

\* faulty variant: ReferenceOr::as_item, an indirect item is treated as absent (a panic on unwrap)
item_or_fetch_as_item(self, components, component_field, component_path) ==
    IF self.kind = "Item" THEN Ok(self.item) ELSE Panic

\* faulty variant: a missing name is reported as the rejection value
item_or_fetch_err(self, components, component_field, component_path) ==
    LET r == item_or_fetch_from(self, components, component_field, component_path, 0)
    IN  IF r.status = "Panic" THEN Err ELSE r

item_or_fetch(self, components, component_field, component_path) ==
    item_or_fetch_from(self, components, component_field, component_path, 0)

schema_item_or_fetch(self, components) ==
    item_or_fetch(self, components, "schemas", SCHEMAS_PATH)

parameter_item_or_fetch(self, components) ==
    item_or_fetch(self, components, "parameters", PARAMETERS_PATH)

request_body_item_or_fetch(self, components) ==
    item_or_fetch(self, components, "request_bodies", REQUEST_BODIES_PATH)

----------------------------------------------------------------------------
(* Operation selector *)

GET == <<"g", "e", "t">>
PUT == <<"p", "u", "t">>
POST == <<"p", "o", "s", "t">>
DELETE == <<"d", "e", "l", "e", "t", "e">>

\* Option::ok_or(())
ok_or(option) == IF option.kind = "Some" THEN Ok(option.value) ELSE Err

\* faulty variant: every operation the path item declares is selectable by its name
select_any_declared(path_spec, operation) ==
    CASE operation = GET -> ok_or(path_spec.get)
      [] operation = PUT -> ok_or(path_spec.put)
      [] operation = DELETE -> ok_or(path_spec.delete)
      [] operation = POST -> ok_or(path_spec.post)
      [] operation = <<"p", "a", "t", "c", "h">> -> ok_or(path_spec.patch)
      [] operation = <<"h", "e", "a", "d">> -> ok_or(path_spec.head)
      [] OTHER -> Err

\* the match of validate_operation
select_operation(path_spec, operation) ==
    CASE operation = GET -> ok_or(path_spec.get)
      [] operation = PUT -> ok_or(path_spec.put)
      [] operation = DELETE -> ok_or(path_spec.delete)
      [] operation = POST -> ok_or(path_spec.post)
      [] OTHER -> Err

validate_operation(self, operation) ==
    LET operation_spec == select_operation(self.path_spec, operation)
    IN  IF operation_spec.status # "Ok"
        THEN operation_spec
        ELSE Ok([operation_spec |-> operation_spec.value,
                 components |-> self.components,
                 path_parameters |-> self.path_parameters])

----------------------------------------------------------------------------
(* Schema translator.  A JSON object is a function from its keys. *)

insert(json, key, value) ==
    [k \in (DOMAIN json) \cup {key} |-> IF k = key THEN value ELSE json[k]]

insert_if_some(json, key, optional_value) ==
    IF optional_value.kind = "Some" THEN insert(json, key, optional_value.value) ELSE json

insert_if_not_empty(json, key, value) ==
    IF value # <<>> THEN insert(json, key, value) ELSE json

string_to_json_schema(string_schema) ==
    LET j1 == insert(<<>>, "type", "string")
        j2 == insert_if_some(j1, "minLength", string_schema.min_length)
        j3 == insert_if_some(j2, "maxLength", string_schema.max_length)
        j4 == insert_if_not_empty(j3, "enum", string_schema.enumeration)
        j5 == insert_if_some(j4, "pattern", string_schema.pattern)
    IN  IF string_schema.format.kind = "Item"
        THEN insert(j5, "format", string_schema.format.item)
        ELSE j5

\* value.into() of the flag that was tested: true
insert_if_true(json, key, value) ==
    IF value THEN insert(json, key, value) ELSE json

number_to_json_schema(number_schema) ==
    LET j1 == insert(<<>>, "type", "number")
        j2 == insert_if_some(j1, "minimum", number_schema.minimum)
        j3 == insert_if_some(j2, "maximum", number_schema.maximum)
        j4 == insert_if_true(j3, "exclusiveMinimum", number_schema.exclusive_minimum)
        j5 == insert_if_true(j4, "exclusiveMaximum", number_schema.exclusive_maximum)
        j6 == insert_if_some(j5, "multipleOf", number_schema.multiple_of)
    IN  insert_if_not_empty(j6, "enum", number_schema.enumeration)

integer_to_json_schema(integer_schema) ==
    LET j1 == insert(<<>>, "type", "integer")
        j2 == insert_if_some(j1, "minimum", integer_schema.minimum)
        j3 == insert_if_some(j2, "maximum", integer_schema.maximum)
        j4 == insert_if_true(j3, "exclusiveMinimum", integer_schema.exclusive_minimum)
        j5 == insert_if_true(j4, "exclusiveMaximum", integer_schema.exclusive_maximum)
        j6 == insert_if_some(j5, "multipleOf", integer_schema.multiple_of)
    IN  insert_if_not_empty(j6, "enum", integer_schema.enumeration)

RECURSIVE to_json_schema(_)

\* ToJSONSchema for ReferenceOr<T>: as_item().unwrap(), a panic on a Reference
\* (the translator is not handed the component table)
reference_or_to_json_schema(reference_or) ==
    IF reference_or.kind = "Item"
    THEN to_json_schema(reference_or.item)
    ELSE Panic

\* ToJSONSchema for Vec<T>: the translations of the elements, in order
vec_to_json_schema(vec) ==
    LET each == [i \in 1..Len(vec) |-> reference_or_to_json_schema(vec[i])]
    IN  IF \E i \in 1..Len(vec) : each[i].status # "Ok"
        THEN Panic
        ELSE Ok([i \in 1..Len(vec) |-> each[i].value])

\* the translations of the values of a non-empty map, under their names
insert_if_map_not_empty(json, key, map) ==
    IF DOMAIN map = {}
    THEN Ok(json)
    ELSE LET each == [name \in DOMAIN map |-> reference_or_to_json_schema(map[name])]
         IN  IF \E name \in DOMAIN map : each[name].status # "Ok"
             THEN Panic
             ELSE Ok(insert(json, key, [name \in DOMAIN map |-> each[name].value]))

\* faulty variant: items is translated as every other ReferenceOr is
array_to_json_schema_unwraps_items(array_schema) ==
    LET j1 == insert(<<>>, "type", "array")
        j2 == insert_if_some(j1, "minItems", array_schema.min_items)
        j3 == insert_if_some(j2, "maxItems", array_schema.max_items)
        j4 == insert_if_true(j3, "uniqueItems", array_schema.unique_items)
    IN  IF array_schema.items.kind = "None"
        THEN Ok(j4)
        ELSE LET items == reference_or_to_json_schema(array_schema.items.value)
             IN  IF items.status # "Ok" THEN Panic ELSE Ok(insert(j4, "items", items.value))

\* items.as_ref().and_then(ReferenceOr::as_item): an absent or indirect items
\* is None and no key is inserted
array_to_json_schema(array_schema) ==
    LET j1 == insert(<<>>, "type", "array")
        j2 == insert_if_some(j1, "minItems", array_schema.min_items)
        j3 == insert_if_some(j2, "maxItems", array_schema.max_items)
        j4 == insert_if_true(j3, "uniqueItems", array_schema.unique_items)
    IN  IF array_schema.items.kind = "None" \/ array_schema.items.value.kind # "Item"
        THEN Ok(j4)
        ELSE LET items == to_json_schema(array_schema.items.value.item)
             IN  IF items.status # "Ok" THEN Panic ELSE Ok(insert(j4, "items", items.value))

\* AdditionalProperties::Any and AdditionalProperties::Schema
AdditionalAny(value) == [kind |-> "Any", value |-> value]
AdditionalSchema(schema_ref) == [kind |-> "Schema", schema |-> schema_ref]

object_to_json_schema(object_schema) ==
    LET j1 == insert(<<>>, "type", "object")
        j2 == insert_if_some(j1, "minProperties", object_schema.min_properties)
        j3 == insert_if_some(j2, "maxProperties", object_schema.max_properties)
        additional ==
            IF object_schema.additional_properties.kind = "None"
            THEN Ok(j3)
            ELSE IF object_schema.additional_properties.value.kind = "Any"
            THEN Ok(insert(j3, "additionalProperties",
                           object_schema.additional_properties.value.value))
            ELSE LET translation ==
                         reference_or_to_json_schema(
                             object_schema.additional_properties.value.schema)
                 IN  IF translation.status # "Ok"
                     THEN Panic
                     ELSE Ok(insert(j3, "additionalProperties", translation.value))
    IN  IF additional.status # "Ok"
        THEN Panic
        ELSE LET properties == insert_if_map_not_empty(additional.value, "properties",
                                                       object_schema.properties)
             IN  IF properties.status # "Ok"
                 THEN Panic
                 ELSE Ok(insert_if_not_empty(properties.value, "required",
                                             object_schema.required))

\* the one key of a combinator over the translation of its operands
combinator_to_json_schema(key, operands) ==
    IF operands.status # "Ok" THEN Panic ELSE Ok(insert(<<>>, key, operands.value))

\* to_json_schema of a Schema; a schema kind outside the match arms is todo!()
to_json_schema(the_schema) ==
    CASE the_schema.schema_kind = "Boolean" -> Ok(insert(<<>>, "type", "boolean"))
      [] the_schema.schema_kind = "String" -> Ok(string_to_json_schema(the_schema.string))
      [] the_schema.schema_kind = "Number" -> Ok(number_to_json_schema(the_schema.number))
      [] the_schema.schema_kind = "Integer" ->
             Ok(integer_to_json_schema(the_schema.integer))
      [] the_schema.schema_kind = "Object" -> object_to_json_schema(the_schema.object)
      [] the_schema.schema_kind = "Array" -> array_to_json_schema(the_schema.array)
      [] the_schema.schema_kind = "OneOf" ->
             combinator_to_json_schema("oneOf", vec_to_json_schema(the_schema.one_of))
      [] the_schema.schema_kind = "AllOf" ->
             combinator_to_json_schema("allOf", vec_to_json_schema(the_schema.all_of))
      [] the_schema.schema_kind = "AnyOf" ->
             combinator_to_json_schema("anyOf", vec_to_json_schema(the_schema.any_of))
      [] the_schema.schema_kind = "Not" ->
             combinator_to_json_schema("not", reference_or_to_json_schema(the_schema.not))
      [] OTHER -> Panic

(* The translator of src/jsonschema.rs, which validator.rs uses: its       *)
(* Number and Integer arms.                                                 *)

jsonschema_number_to_json_schema(number_schema) ==
    LET j1 == insert(<<>>, "type", "number")
        j2 == insert_if_some(j1, "minimum", number_schema.minimum)
        j3 == insert_if_some(j2, "maximum", number_schema.maximum)
        j4 == IF number_schema.exclusive_minimum
              THEN insert(j3, "exclusiveMinimum", number_schema.exclusive_minimum)
              ELSE j3
        j5 == IF number_schema.exclusive_maximum
              THEN insert(j4, "exclusiveMaximum", number_schema.exclusive_minimum)
              ELSE j4
    IN  insert_if_some(j5, "multipleOf", number_schema.multiple_of)

jsonschema_integer_to_json_schema(integer_schema) ==
    LET j1 == insert(<<>>, "type", "integer")
        j2 == insert_if_some(j1, "minimum", integer_schema.minimum)
        j3 == insert_if_some(j2, "maximum", integer_schema.maximum)
        j4 == IF integer_schema.exclusive_minimum
              THEN insert(j3, "exclusiveMinimum", integer_schema.exclusive_minimum)
              ELSE j3
        j5 == IF integer_schema.exclusive_maximum
              THEN insert(j4, "exclusiveMaximum", integer_schema.exclusive_minimum)
              ELSE j4
    IN  insert_if_some(j5, "multipleOf", integer_schema.multiple_of)

jsonschema_to_json_schema(the_schema) ==
    CASE the_schema.schema_kind = "Number" ->
             Ok(jsonschema_number_to_json_schema(the_schema.number))
      [] the_schema.schema_kind = "Integer" ->
             Ok(jsonschema_integer_to_json_schema(the_schema.integer))

\* the two ToJSONSchema traits of the repository
TO_JSONSCHEMA == "to_jsonschema"
JSONSCHEMA == "jsonschema"

translate(translator, the_schema) ==
    IF translator = JSONSCHEMA
    THEN jsonschema_to_json_schema(the_schema)
    ELSE to_json_schema(the_schema)

----------------------------------------------------------------------------
(* The collaborators: serde_json, std::str, regex and jsonschema, each on   *)
(* the texts and documents the model's requests and specifications use.     *)

NOT_UTF8 == "0xFF"

from_utf8(bytes) ==
    IF \E i \in 1..Len(bytes) : bytes[i] = NOT_UTF8 THEN Err ELSE Ok(bytes)

JsonBool(b) == [json |-> "boolean", value |-> b]
JsonNumber(n) == [json |-> "number", value |-> n]
JsonString(t) == [json |-> "string", value |-> t]

\* serde_json::from_slice: one JSON token, or an error
serde_json_from_slice(bytes) ==
    CASE bytes = <<"true">> -> Ok(JsonBool(TRUE))
      [] bytes = <<"false">> -> Ok(JsonBool(FALSE))
      [] bytes = <<"1">> -> Ok(JsonNumber(1))
      [] bytes = <<"\"a\"">> -> Ok(JsonString(<<"a">>))
      [] bytes = <<"\"b\"">> -> Ok(JsonString(<<"b">>))
      [] OTHER -> Err

VALID_PATTERN == <<"^a$">>
MALFORMED_PATTERN == <<"(">>

regex_is_match(pattern, text) == pattern = VALID_PATTERN /\ text = <<"a">>

\* JSONSchema::compile: fails on a document it cannot compile
jsonschema_compile(document) ==
    IF "pattern" \in DOMAIN document /\ document["pattern"] = MALFORMED_PATTERN
    THEN Err
    ELSE Ok(document)

jsonschema_is_valid(document, instance) ==
    /\ instance.json = document["type"]
    /\ ("pattern" \in DOMAIN document /\ instance.json = "string")
          => regex_is_match(document["pattern"], instance.value)
    /\ ("minLength" \in DOMAIN document /\ instance.json = "string")
          => Len(instance.value) >= document["minLength"]
    /\ ("maxLength" \in DOMAIN document /\ instance.json = "string")
          => Len(instance.value) <= document["maxLength"]
    /\ ("enum" \in DOMAIN document /\ instance.json = "string")
          => \E i \in 1..Len(document["enum"]) : document["enum"][i] = instance.value

\* faulty variant: an input that is not JSON is taken as a raw string
validates_raw_string(self, input) ==
    LET parsed == serde_json_from_slice(input)
        json_parameter == IF parsed.status = "Ok" THEN parsed.value ELSE JsonString(input)
    IN  IF jsonschema_compile(self).status # "Ok"
        THEN Err
        ELSE IF ~jsonschema_is_valid(self, json_parameter)
        THEN Err
        ELSE Ok(<<>>)

\* JSONSchemaValidator::validates
validates(self, input) ==
    LET json_parameter == serde_json_from_slice(input)
    IN  IF json_parameter.status # "Ok"
        THEN Err
        ELSE IF jsonschema_compile(self).status # "Ok"
        THEN Err
        ELSE IF ~jsonschema_is_valid(self, json_parameter.value)
        THEN Err
        ELSE Ok(<<>>)

\* schema.item_or_fetch(components).to_json_schema().validates(input)
schema_validates(schema, components, input) ==
    LET fetched == schema_item_or_fetch(schema, components)
    IN  IF fetched.status # "Ok"
        THEN fetched
        ELSE LET document == to_json_schema(fetched.value)
             IN  IF document.status # "Ok"
                 THEN document
                 ELSE validates(document.value, input)

----------------------------------------------------------------------------
(* Request *)

\* faulty variant: a URL without a scheme is parsed as a path
parse_url_lenient(url) ==
    Ok([path |-> IF url.path = <<>> THEN <<"/">> ELSE url.path, query |-> url.query])

\* Url::parse: a URL without a scheme is relative and does not parse; the path
\* of a parsed http URL is never empty
parse_url(url) ==
    IF ~url.has_scheme
    THEN Err
    ELSE Ok([path |-> IF url.path = <<>> THEN <<"/">> ELSE url.path,
             query |-> url.query])

get_header(the_request, key) ==
    IF key \in DOMAIN the_request.headers
    THEN Some(the_request.headers[key])
    ELSE None

\* Url::query_pairs().find(|(key, ..)| key == name)
extract_query_parameter(url, name) ==
    LET hits == {i \in 1..Len(url.query) : url.query[i][1] = name}
    IN  IF hits = {} THEN None ELSE Some(url.query[Min(hits)][2])

----------------------------------------------------------------------------
(* Parameter validator *)

\* faulty variant: a parameter without a value passes, required or not
validate_missing_passes(self, the_request, components, path_parameters) ==
    LET parameter_data == self.parameter_data
        url == parse_url(the_request.url)
        parameter_value ==
            CASE self.kind = "Header" -> get_header(the_request, parameter_data.name)
              [] self.kind = "Query" ->
                     extract_query_parameter(url.value, parameter_data.name)
              [] self.kind = "Path" ->
                     IF parameter_data.name \in DOMAIN path_parameters
                     THEN Some(path_parameters[parameter_data.name])
                     ELSE None
    IN  IF parameter_value.kind = "None"
        THEN Ok(<<>>)
        ELSE schema_validates(parameter_data.format.schema, components,
                              parameter_value.value)

\* ParameterValidator::validate of one (resolved) parameter
validate(self, the_request, components, path_parameters) ==
    LET parameter_data == self.parameter_data
        url == parse_url(the_request.url)
    IN  IF url.status # "Ok"
        THEN Panic
        ELSE IF self.kind \notin {"Header", "Query", "Path"}
        THEN Panic
        ELSE LET parameter_value ==
                     CASE self.kind = "Header" ->
                              get_header(the_request, parameter_data.name)
                       [] self.kind = "Query" ->
                              extract_query_parameter(url.value, parameter_data.name)
                       [] self.kind = "Path" ->
                              IF parameter_data.name \in DOMAIN path_parameters
                              THEN Some(path_parameters[parameter_data.name])
                              ELSE None
             IN  IF parameter_value.kind = "None"
                 THEN IF ~parameter_data.required THEN Ok(<<>>) ELSE Err
                 ELSE IF parameter_data.format.kind # "Schema"
                 THEN Panic
                 ELSE schema_validates(parameter_data.format.schema, components,
                                       parameter_value.value)

\* one step of Iterator::all over operation_spec.parameters
validate_one(parameter, the_request, components, path_parameters) ==
    LET fetched == parameter_item_or_fetch(parameter, components)
    IN  IF fetched.status # "Ok"
        THEN fetched
        ELSE validate(fetched.value, the_request, components, path_parameters)

\* faulty variant: only the first declared parameter is validated
all_parameters_valid_first_only(parameters, the_request, components, path_parameters) ==
    IF parameters = <<>>
    THEN Ok(<<>>)
    ELSE validate_one(Head(parameters), the_request, components, path_parameters)

\* Iterator::all stops at the first parameter that is not Ok; a panic or an
\* unbounded recursion inside the closure ends the call
RECURSIVE all_parameters_valid(_, _, _, _)
all_parameters_valid(parameters, the_request, components, path_parameters) ==
    IF parameters = <<>>
    THEN Ok(<<>>)
    ELSE LET first == validate_one(Head(parameters), the_request, components,
                                   path_parameters)
         IN  IF first.status # "Ok"
             THEN first
             ELSE all_parameters_valid(Tail(parameters), the_request, components,
                                       path_parameters)

validate_parameters(self, the_request) ==
    LET valid == all_parameters_valid(self.operation_spec.parameters, the_request,
                                      self.components, self.path_parameters)
    IN  IF valid.status # "Ok"
        THEN valid
        ELSE Ok([operation_spec |-> self.operation_spec,
                 components |-> self.components])

----------------------------------------------------------------------------
(* Content negotiator and body validator *)

CONTENT_TYPE == <<"Content-Type">>
APPLICATION_JSON == <<"application/json">>
TEXT_PLAIN_UTF8 == <<"text/plain; charset=utf-8">>

\* the responses map the body validator carries to the ResponseValidator
response_spec_of(operation_spec) == operation_spec.responses

\* faulty variant: the header is not looked up among the declared content types
validate_content_type_undeclared(self, content_type) ==
    IF self.operation_spec.request_body.kind = "None"
    THEN Ok([mode |-> "NoSpecification",
             response_spec |-> response_spec_of(self.operation_spec),
             components |-> self.components])
    ELSE LET fetched == request_body_item_or_fetch(self.operation_spec.request_body.value,
                                                   self.components)
             common == [body_spec |-> fetched.value,
                        response_spec |-> response_spec_of(self.operation_spec),
                        components |-> self.components]
         IN  IF fetched.status # "Ok"
             THEN fetched
             ELSE IF content_type.kind = "None"
             THEN Ok([mode |-> "EmptyContentType"] @@ common)
             ELSE IF content_type.value = APPLICATION_JSON
             THEN Ok([mode |-> "JSONBody"] @@ common)
             ELSE IF content_type.value = TEXT_PLAIN_UTF8
             THEN Ok([mode |-> "PlainUTF8Body"] @@ common)
             ELSE Err

validate_content_type(self, content_type) ==
    IF self.operation_spec.request_body.kind = "None"
    THEN Ok([mode |-> "NoSpecification",
             response_spec |-> response_spec_of(self.operation_spec),
             components |-> self.components])
    ELSE LET fetched == request_body_item_or_fetch(self.operation_spec.request_body.value,
                                                   self.components)
         IN  IF fetched.status # "Ok"
             THEN fetched
             ELSE LET body_spec == fetched.value
                      common == [body_spec |-> body_spec,
                                 response_spec |-> response_spec_of(self.operation_spec),
                                 components |-> self.components]
                  IN  IF content_type.kind = "None"
                      THEN Ok([mode |-> "EmptyContentType"] @@ common)
                      ELSE IF content_type.value \notin DOMAIN body_spec.content
                      THEN Err
                      ELSE IF content_type.value = APPLICATION_JSON
                      THEN Ok([mode |-> "JSONBody"] @@ common)
                      ELSE IF content_type.value = TEXT_PLAIN_UTF8
                      THEN Ok([mode |-> "PlainUTF8Body"] @@ common)
                      ELSE Err

\* faulty variant: the declared schema is not looked at
validate_json_ignores_schema(body_spec, body, components) ==
    IF serde_json_from_slice(body).status = "Ok" THEN Ok(<<>>) ELSE Err

\* BodyValidator::validate_json
validate_json(body_spec, body, components) ==
    LET declared == IF APPLICATION_JSON \in DOMAIN body_spec.content
                    THEN body_spec.content[APPLICATION_JSON].schema
                    ELSE None
    IN  IF declared.kind = "Some"
        THEN LET body_schema == schema_item_or_fetch(declared.value, components)
             IN  IF body_schema.status # "Ok"
                 THEN body_schema
                 ELSE IF from_utf8(body).status # "Ok"
                 THEN Err
                 ELSE LET document == to_json_schema(body_schema.value)
                      IN  IF document.status # "Ok"
                          THEN document
                          ELSE validates(document.value, body)
        ELSE IF serde_json_from_slice(body).status = "Ok"
        THEN Ok(<<>>)
        ELSE Err

\* faulty variant: without a Content-Type header the body is not looked at
body_accepted_any_body(self, body) ==
    CASE self.mode = "JSONBody" -> validate_json(self.body_spec, body, self.components)
      [] self.mode = "PlainUTF8Body" ->
             IF from_utf8(body).status = "Ok" THEN Ok(<<>>) ELSE Err
      [] self.mode = "EmptyContentType" ->
             IF ~self.body_spec.required THEN Ok(<<>>) ELSE Err
      [] self.mode = "NoSpecification" -> Ok(<<>>)

\* the accept/reject decision of BodyValidator::validate_body
body_accepted(self, body) ==
    CASE self.mode = "JSONBody" -> validate_json(self.body_spec, body, self.components)
      [] self.mode = "PlainUTF8Body" ->
             IF from_utf8(body).status = "Ok" THEN Ok(<<>>) ELSE Err
      [] self.mode = "EmptyContentType" ->
             IF ~self.body_spec.required /\ body = <<>> THEN Ok(<<>>) ELSE Err
      [] self.mode = "NoSpecification" -> Ok(<<>>)

ResponseValidator(self) ==
    [response_spec |-> self.response_spec, components |-> self.components]

\* faulty variant: the handle is returned whatever the body validation decided
validate_body_always_handle(self, body) == Ok(ResponseValidator(self))

\* BodyValidator::validate_body: the ResponseValidator, on acceptance only
validate_body(self, body) ==
    LET accepted == body_accepted(self, body)
    IN  IF accepted.status # "Ok"
        THEN accepted
        ELSE Ok(ResponseValidator(self))

----------------------------------------------------------------------------
(* Response validator *)

Code(c) == [kind |-> "Code", code |-> c]
Range(r) == [kind |-> "Range", range |-> r]

\* faulty variant: the range is the hundreds of the code, whatever the code is
extract_range_by_division(status_code) == Ok(Range(status_code \div 100))

extract_range_from_status_code(status_code) ==
    CASE status_code \in 100..199 -> Ok(Range(1))
      [] status_code \in 200..299 -> Ok(Range(2))
      [] status_code \in 300..399 -> Ok(Range(3))
      [] status_code \in 400..499 -> Ok(Range(4))
      [] status_code \in 500..599 -> Ok(Range(5))
      [] OTHER -> Panic

\* faulty variant: only the exact code is looked up
validate_status_code_exact_only(self, status_code) ==
    IF Code(status_code) \in self.response_spec.responses THEN Ok(<<>>) ELSE Err

\* faulty variant: the range is derived before the exact code is looked up
validate_status_code_range_first(self, status_code) ==
    LET range == extract_range_from_status_code(status_code)
    IN  IF range.status # "Ok"
        THEN range
        ELSE IF \/ Code(status_code) \in self.response_spec.responses
                \/ range.value \in self.response_spec.responses
        THEN Ok(<<>>)
        ELSE Err

validate_status_code(self, status_code) ==
    LET responses == self.response_spec.responses
    IN  IF Code(status_code) \in responses
        THEN Ok(<<>>)
        ELSE LET range == extract_range_from_status_code(status_code)
             IN  IF range.status # "Ok"
                 THEN range
                 ELSE IF range.value \in responses THEN Ok(<<>>) ELSE Err

validate_response(self, status_code) == validate_status_code(self, status_code)

----------------------------------------------------------------------------
(* Request validator: the pipeline of validate_request *)

StageOrder ==
    <<"parse_url", "validate_path", "validate_operation", "validate_parameters",
      "validate_content_type", "validate_body">>

stage_index(stage) == CHOOSE i \in 1..Len(StageOrder) : StageOrder[i] = stage

following(stage) ==
    IF stage_index(stage) = Len(StageOrder)
    THEN "done"
    ELSE StageOrder[stage_index(stage) + 1]

\* faulty variant: the result of validate_parameters is not propagated with `?`
next_stage_ignores_parameters(stage, status) ==
    IF status = "Ok" \/ stage = "validate_parameters" THEN following(stage) ELSE "done"

\* the `?` after every stage: anything but Ok ends the call
next_stage(stage, status) ==
    IF status = "Ok" THEN following(stage) ELSE "done"

\* the call each stage of validate_request makes on the previous stage's value
run_stage(stage, the_api, the_request, previous) ==
    CASE stage = "parse_url" -> parse_url(the_request.url)
      [] stage = "validate_path" -> validate_path(the_api, previous.path)
      [] stage = "validate_operation" -> validate_operation(previous, the_request.operation)
      [] stage = "validate_parameters" -> validate_parameters(previous, the_request)
      [] stage = "validate_content_type" ->
             validate_content_type(previous, get_header(the_request, CONTENT_TYPE))
      [] stage = "validate_body" -> validate_body(previous, the_request.body)

\* validate_request as one function of the specification and the request
RECURSIVE validate_request_from(_, _, _, _)
validate_request_from(stage, the_api, the_request, previous) ==
    LET result == run_stage(stage, the_api, the_request, previous)
    IN  IF next_stage(stage, result.status) = "done"
        THEN result
        ELSE validate_request_from(next_stage(stage, result.status), the_api,
                                   the_request, result.value)

validate_request(the_api, the_request) ==
    validate_request_from("parse_url", the_api, the_request, None)

----------------------------------------------------------------------------
(* The specifications and requests the model is checked on *)

MaxRefDepth == 2
MaxPathLen == 5

BooleanSchema == [schema_kind |-> "Boolean"]

StringSchema(pattern) ==
    [schema_kind |-> "String",
     string |-> [min_length |-> None, max_length |-> None, enumeration |-> <<>>,
                 pattern |-> pattern, format |-> [kind |-> "Empty"]]]

NumberType(minimum, exclusive_minimum, exclusive_maximum) ==
    [minimum |-> minimum, maximum |-> None, exclusive_minimum |-> exclusive_minimum,
     exclusive_maximum |-> exclusive_maximum, multiple_of |-> None,
     enumeration |-> <<>>]

NumberSchema(minimum, exclusive_minimum, exclusive_maximum) ==
    [schema_kind |-> "Number",
     number |-> NumberType(minimum, exclusive_minimum, exclusive_maximum)]

IntegerSchema(minimum, exclusive_minimum, exclusive_maximum) ==
    [schema_kind |-> "Integer",
     integer |-> NumberType(minimum, exclusive_minimum, exclusive_maximum)]

ArraySchema(items, min_items, max_items, unique_items) ==
    [schema_kind |-> "Array",
     array |-> [items |-> items, min_items |-> min_items, max_items |-> max_items,
                unique_items |-> unique_items]]

ObjectSchema(properties, additional_properties) ==
    [schema_kind |-> "Object",
     object |-> [properties |-> properties, required |-> <<>>,
                 additional_properties |-> additional_properties,
                 min_properties |-> None, max_properties |-> None]]

OneOfSchema(one_of) == [schema_kind |-> "OneOf", one_of |-> one_of]
AllOfSchema(all_of) == [schema_kind |-> "AllOf", all_of |-> all_of]
AnyOfSchema(any_of) == [schema_kind |-> "AnyOf", any_of |-> any_of]
NotSchema(not) == [schema_kind |-> "Not", not |-> not]

\* SchemaKind::Any, which no arm of the translator matches
AnySchema == [schema_kind |-> "Any"]

NoOperations ==
    [get |-> None, put |-> None, post |-> None, delete |-> None,
     options |-> None, head |-> None, patch |-> None, trace |-> None]

Operation(id, parameters, request_body, responses) ==
    [operation_id |-> id, parameters |-> parameters, request_body |-> request_body,
     responses |-> [responses |-> responses]]

ParameterOf(kind, name, required, schema) ==
    [kind |-> kind,
     parameter_data |-> [name |-> name, required |-> required,
                         format |-> [kind |-> "Schema", schema |-> schema]]]

RequestBody(required, content) == [required |-> required, content |-> content]

JsonContent(schema) == APPLICATION_JSON :> [schema |-> schema]
TextContent == TEXT_PLAIN_UTF8 :> [schema |-> None]

NoTable == <<>>

Components(schemas, parameters, request_bodies) ==
    Some([schemas |-> schemas, parameters |-> parameters,
          request_bodies |-> request_bodies])

PathOf(template, path_item) == [path |-> template, item |-> path_item]

THING == <<"thing">>
SLASH_A == <<"/", "a">>
SLASH_B == <<"/", "b">>

Url(has_scheme, path, query) == [has_scheme |-> has_scheme, path |-> path, query |-> query]

Request(url, operation, headers, body) ==
    [url |-> url, operation |-> operation, headers |-> headers, body |-> body]

\* the header maps with an optional `thing` and an optional Content-Type
Headers(things, content_types) ==
    {(IF t = <<>> THEN <<>> ELSE THING :> t) @@ (IF c = <<>> THEN <<>> ELSE CONTENT_TYPE :> c) :
        t \in things, c \in content_types}

(* the n-th name of a chain of references, and the reference to it *)
chain_name(n) == [k \in 1..n |-> "n"]
chain_reference(component_path, n) == component_path \o chain_name(n)

\* a section holding a chain of `depth` references that ends in `item`; with
\* missing > 0 the name of that level (and every later one) is not in the section
chain_section(component_path, depth, missing, item) ==
    LET last == IF missing > 0 THEN missing - 1 ELSE depth
    IN  [name \in {chain_name(n) : n \in 1..last} |->
            IF Len(name) = depth
            THEN Item(item)
            ELSE Reference(chain_reference(component_path, Len(name) + 1))]

chain_head(component_path, depth, item) ==
    IF depth = 0 THEN Item(item) ELSE Reference(chain_reference(component_path, 1))

(* Family "pipeline": one path with a get and a post operation; the post  *)
(* operation has an optional header parameter and request body, inline or  *)
(* through a reference whose name the components do not hold.              *)

PipelineInfos ==
    [family : {"pipeline"},
     param : {"none", "inline", "dangling"},
     body : {"none", "inline", "dangling"},
     required : BOOLEAN,
     schema : {"boolean", "malformed"}]

PipelineApi(info) ==
    LET schema == IF info.schema = "boolean"
                  THEN BooleanSchema
                  ELSE StringSchema(Some(MALFORMED_PATTERN))
        parameters ==
            CASE info.param = "none" -> <<>>
              [] info.param = "inline" ->
                     <<Item(ParameterOf("Header", THING, TRUE, Item(schema)))>>
              [] info.param = "dangling" ->
                     <<Reference(chain_reference(PARAMETERS_PATH, 1))>>
        request_body ==
            CASE info.body = "none" -> None
              [] info.body = "inline" ->
                     Some(Item(RequestBody(info.required,
                                           JsonContent(Some(Item(schema)))
                                               @@ TextContent)))
              [] info.body = "dangling" ->
                     Some(Reference(chain_reference(REQUEST_BODIES_PATH, 1)))
    IN  [info |-> info,
         paths |-> <<PathOf(SLASH_A,
                            Item([NoOperations EXCEPT
                                     !.get = Some(Operation("getA", <<>>, None,
                                                            {Code(200)})),
                                     !.post = Some(Operation("postA", parameters,
                                                             request_body,
                                                             {Code(201), Range(4)}))])),
                     PathOf(<<"/", "r">>, Reference(<<"#/components/pathItems/r">>))>>,
         components |-> Components(NoTable, NoTable, NoTable)]

PipelineRequests ==
    {Request(Url(has_scheme, path, <<>>), operation, headers, body) :
        has_scheme \in BOOLEAN,
        path \in {SLASH_A, SLASH_B, <<"/", "r">>},
        operation \in {GET, POST, <<"G", "E", "T">>},
        headers \in Headers({<<>>, <<"true">>, <<"1">>},
                            {<<>>, APPLICATION_JSON, TEXT_PLAIN_UTF8,
                             <<"application/xml">>}),
        body \in {<<>>, <<"true">>, <<"babe">>}}

(* Family "refs": one post operation whose body schema, parameter,         *)
(* parameter schema or request body is inline (depth 0) or reached through *)
(* a chain of `depth` references, intact or with a name missing.           *)

RefInfos ==
    {info \in [family : {"refs"},
               target : {"body_schema", "parameter", "parameter_schema", "request_body"},
               depth : 0..MaxRefDepth,
               missing : 0..MaxRefDepth,
               components_absent : BOOLEAN,
               required : BOOLEAN,
               schema : {"boolean", "string"}] :
        /\ info.missing <= info.depth
        /\ info.components_absent => (info.depth = 1 /\ info.missing = 1)}

RefApi(info) ==
    LET schema == IF info.schema = "boolean"
                  THEN BooleanSchema
                  ELSE StringSchema(Some(VALID_PATTERN))
        d == info.depth
        m == info.missing
        parameter(schema_ref) == ParameterOf("Header", THING, info.required, schema_ref)
        body(schema_ref) == RequestBody(info.required, JsonContent(Some(schema_ref)))
        parameters ==
            CASE info.target = "parameter" ->
                     <<chain_head(PARAMETERS_PATH, d, parameter(Item(schema)))>>
              [] info.target = "parameter_schema" ->
                     <<Item(parameter(chain_head(SCHEMAS_PATH, d, schema)))>>
              [] OTHER -> <<>>
        request_body ==
            CASE info.target = "request_body" ->
                     Some(chain_head(REQUEST_BODIES_PATH, d, body(Item(schema))))
              [] info.target = "body_schema" ->
                     Some(Item(body(chain_head(SCHEMAS_PATH, d, schema))))
              [] OTHER -> None
        schemas ==
            IF info.target \in {"body_schema", "parameter_schema"}
            THEN chain_section(SCHEMAS_PATH, d, m, schema)
            ELSE NoTable
        parameter_section ==
            IF info.target = "parameter"
            THEN chain_section(PARAMETERS_PATH, d, m, parameter(Item(schema)))
            ELSE NoTable
        request_bodies ==
            IF info.target = "request_body"
            THEN chain_section(REQUEST_BODIES_PATH, d, m, body(Item(schema)))
            ELSE NoTable
    IN  [info |-> info,
         paths |-> <<PathOf(SLASH_A,
                            Item([NoOperations EXCEPT
                                     !.post = Some(Operation("postA", parameters,
                                                             request_body,
                                                             {Code(200)}))]))>>,
         components |-> IF info.components_absent
                        THEN None
                        ELSE Components(schemas, parameter_section, request_bodies)]

RefRequests ==
    {Request(Url(TRUE, SLASH_A, <<>>), operation, headers, body) :
        operation \in {GET, POST},
        headers \in Headers({<<>>, <<"true">>, <<"\"a\"">>},
                            {<<>>, APPLICATION_JSON}),
        body \in {<<>>, <<"true">>, <<"\"a\"">>}}

(* Family "cycles": the specifications of the family "refs" with an intact *)
(* chain, and the same with the last name of the chain referring back to   *)
(* the first one.                                                           *)

CyclesInfos ==
    {info \in [family : {"cycles"},
               target : {"body_schema", "parameter", "parameter_schema", "request_body"},
               depth : 0..MaxRefDepth,
               cyclic : BOOLEAN,
               required : BOOLEAN,
               schema : {"boolean", "string"}] :
        info.cyclic => info.depth >= 1}

\* the last name of the chain refers to the first one
close_cycle(section, component_path, depth) ==
    IF DOMAIN section = {}
    THEN section
    ELSE [section EXCEPT ![chain_name(depth)] =
                             Reference(chain_reference(component_path, 1))]

CyclesApi(info) ==
    LET intact == RefApi([family |-> "refs", target |-> info.target,
                          depth |-> info.depth, missing |-> 0,
                          components_absent |-> FALSE,
                          required |-> info.required, schema |-> info.schema])
        table == intact.components.value
    IN  [info |-> info,
         paths |-> intact.paths,
         components |->
             IF info.cyclic
             THEN Components(close_cycle(table.schemas, SCHEMAS_PATH, info.depth),
                             close_cycle(table.parameters, PARAMETERS_PATH, info.depth),
                             close_cycle(table.request_bodies, REQUEST_BODIES_PATH,
                                         info.depth))
             ELSE intact.components]

(* Family "paths": tables of path templates, each with its own get         *)
(* operation; the request paths are all the paths over {/, a, b}.          *)

PathTables ==
    {<< <<"/", "a", "/", "b">>, <<"/", "a", "/", "{", "x", "}">>,
        <<"/", "{", "x", "}", "/", "{", "y", "}">> >>,
     << <<"/", "a", "/", "{", "x", "}">>, <<"/", "a", "/", "b">>, <<"/", "b">> >>,
     << <<"/", "/", "a", "/", "/", "b", "/">>, <<"/", "{", "x", "}">>, <<"/">> >>,
     << <<"/", "{", "x", "}", "/", "{", "x", "}">>, <<"/", "a", "/", "{", "}">>,
        <<"/", "{", "a">>, <<"/", "{", "x", "}", "b">> >>,
     << <<"{", "x", "}", "/", "a">>, <<"b">> >>}

PathsApi(table) ==
    [info |-> [family |-> "paths"],
     paths |-> [i \in 1..Len(table) |->
                   PathOf(table[i],
                          Item([NoOperations EXCEPT
                                   !.get = Some(Operation(table[i], <<>>, None,
                                                          {Code(200)}))]))],
     components |-> None]

Texts(alphabet, n) == UNION {[1..k -> alphabet] : k \in 0..n}

\* the path of a parsed URL starts with a slash
PathsRequests ==
    {Request(Url(TRUE, <<"/">> \o rest, <<>>), GET, <<>>, <<>>) :
        rest \in Texts({"/", "a", "b"}, MaxPathLen - 1)}

(* Family "parameters": one template with a variable and a get operation    *)
(* with up to two parameters: a header, query or path parameter `x`,       *)
(* required or optional, of a boolean or string schema, and a header `y`.  *)

NAME_X == <<"x">>
NAME_Y == <<"y">>
NAME_Z == <<"z">>

ParametersInfos ==
    [family : {"parameters"},
     variable : {NAME_X, NAME_Z},
     first : {"none", "Header", "Query", "Path"},
     required : BOOLEAN,
     schema : {"boolean", "string"},
     second : {"none", "required", "optional"}]

ParametersApi(info) ==
    LET schema == IF info.schema = "boolean"
                  THEN BooleanSchema
                  ELSE StringSchema(Some(VALID_PATTERN))
        first == IF info.first = "none"
                 THEN <<>>
                 ELSE <<Item(ParameterOf(info.first, NAME_X, info.required, Item(schema)))>>
        second == IF info.second = "none"
                  THEN <<>>
                  ELSE <<Item(ParameterOf("Header", NAME_Y, info.second = "required",
                                          Item(BooleanSchema)))>>
    IN  [info |-> info,
         paths |-> <<PathOf(<<"/", "{">> \o info.variable \o <<"}">>,
                            Item([NoOperations EXCEPT
                                     !.get = Some(Operation("getX", first \o second,
                                                            None, {Code(200)}))]))>>,
         components |-> None]

\* the texts a parameter value is: JSON tokens and an unquoted string
ParameterValues == {<<"true">>, <<"a">>, <<"\"a\"">>}

ParametersRequests ==
    {Request(Url(TRUE, <<"/">> \o segment, query), GET, x @@ y, <<>>) :
        segment \in ParameterValues,
        query \in {<<>>} \cup {<< <<NAME_X, v>> >> : v \in ParameterValues}
                     \cup {<< <<NAME_Y, <<"true">> >>, <<NAME_X, <<"true">> >>,
                              <<NAME_X, <<"a">> >> >>},
        x \in {<<>>} \cup {NAME_X :> v : v \in ParameterValues},
        y \in {<<>>} \cup {NAME_Y :> v : v \in {<<"true">>, <<"a">>}}}

(* Family "bindings": one template of two segments, Fixed or Variable, the  *)
(* same variable name twice included, with a get operation that declares   *)
(* no parameter or a Path parameter `x` or `y` of a boolean or string      *)
(* schema; the request paths have two segments, with or without empty ones. *)

BindingsTemplates ==
    {<<"/", "{", "x", "}", "/", "{", "y", "}">>,
     <<"/", "{", "y", "}", "/", "{", "x", "}">>,
     <<"/", "{", "x", "}", "/", "{", "x", "}">>,
     <<"/", "a", "/", "{", "x", "}">>,
     <<"/", "{", "x", "}", "/", "a">>}

BindingsInfos ==
    [family : {"bindings"},
     template : BindingsTemplates,
     parameter : {<<>>, NAME_X, NAME_Y},
     required : BOOLEAN,
     schema : {"boolean", "string"}]

BindingsApi(info) ==
    LET schema == IF info.schema = "boolean"
                  THEN BooleanSchema
                  ELSE StringSchema(Some(VALID_PATTERN))
        parameters == IF info.parameter = <<>>
                      THEN <<>>
                      ELSE <<Item(ParameterOf("Path", info.parameter, info.required,
                                              Item(schema)))>>
    IN  [info |-> info,
         paths |-> <<PathOf(info.template,
                            Item([NoOperations EXCEPT
                                     !.get = Some(Operation("getX", parameters,
                                                            None, {Code(200)}))]))>>,
         components |-> None]

BindingsRequests ==
    {Request(Url(TRUE, empty \o <<"/">> \o first \o empty \o <<"/">> \o second \o empty,
                 <<>>), GET, <<>>, <<>>) :
        first \in ParameterValues, second \in ParameterValues,
        empty \in {<<>>, <<"/">>}}

(* Family "schemas": the schemas to_json_schema is called on: numbers and  *)
(* integers, arrays, objects and combinators over inline schemas and over  *)
(* a reference to the schema `n` of the components, which is a boolean.    *)

SCHEMA_REFERENCE == Reference(chain_reference(SCHEMAS_PATH, 1))

\* SchemaRefs: the inline schemas and the reference an operand is
SchemaInputs ==
    LET SchemaRefs ==
            {Item(BooleanSchema), Item(NumberSchema(Some(1), TRUE, FALSE)),
             SCHEMA_REFERENCE}
        NumberSchemas ==
            {NumberSchema(minimum, exclusive_minimum, exclusive_maximum) :
                minimum \in {None, Some(1)}, exclusive_minimum \in BOOLEAN,
                exclusive_maximum \in BOOLEAN}
            \cup
            {IntegerSchema(minimum, exclusive_minimum, exclusive_maximum) :
                minimum \in {None, Some(1)}, exclusive_minimum \in BOOLEAN,
                exclusive_maximum \in BOOLEAN}
        ArraySchemas ==
            {ArraySchema(items, min_items, max_items, unique_items) :
                items \in {None, Some(Item(AnySchema)),
                           Some(Item(NotSchema(SCHEMA_REFERENCE)))}
                              \cup {Some(schema_ref) : schema_ref \in SchemaRefs},
                min_items \in {None, Some(1)},
                max_items \in {None, Some(2)},
                unique_items \in BOOLEAN}
        ObjectSchemas ==
            {ObjectSchema(properties, additional_properties) :
                properties \in {<<>>, "p" :> Item(BooleanSchema) @@ "q" :> SCHEMA_REFERENCE}
                                   \cup {"p" :> schema_ref : schema_ref \in SchemaRefs},
                additional_properties \in
                    {None, Some(AdditionalAny(TRUE)), Some(AdditionalAny(FALSE))}
                        \cup {Some(AdditionalSchema(schema_ref)) :
                                  schema_ref \in SchemaRefs}}
        CombinatorOperands ==
            {<<Item(BooleanSchema)>>, <<Item(BooleanSchema), Item(StringSchema(None))>>,
             <<SCHEMA_REFERENCE>>, <<Item(BooleanSchema), SCHEMA_REFERENCE>>}
        CombinatorSchemas ==
            {OneOfSchema(operands) : operands \in CombinatorOperands}
            \cup {AllOfSchema(operands) : operands \in CombinatorOperands}
            \cup {AnyOfSchema(operands) : operands \in CombinatorOperands}
            \cup {NotSchema(operand) : operand \in SchemaRefs}
    IN  {BooleanSchema, StringSchema(None), AnySchema}
        \cup NumberSchemas \cup ArraySchemas \cup ObjectSchemas \cup CombinatorSchemas

\* the components hold the schema `n`, the body schema of the post operation
SchemasApi ==
    [RefApi([family |-> "refs", target |-> "body_schema", depth |-> 1, missing |-> 0,
             components_absent |-> FALSE, required |-> TRUE, schema |-> "boolean"])
        EXCEPT !.info = [family |-> "schemas"]]

SchemasRequests ==
    {Request(Url(TRUE, SLASH_A, <<>>), POST, CONTENT_TYPE :> APPLICATION_JSON, body) :
        body \in {<<"true">>, <<"\"a\"">>}}

\* the schemas handed to to_json_schema
Schemas(family) == IF family = "schemas" THEN SchemaInputs ELSE {BooleanSchema}

\* the translators that are modelled on a schema: src/jsonschema.rs on the
\* numbers and integers
Translators(the_schema) ==
    IF the_schema.schema_kind \in {"Number", "Integer"}
    THEN {TO_JSONSCHEMA, JSONSCHEMA}
    ELSE {TO_JSONSCHEMA}

(* Family "bodies": one post operation without a request body, or with an  *)
(* inline request body, required or optional, declaring any of             *)
(* application/json (with or without a schema), text/plain; charset=utf-8  *)
(* and application/xml.                                                      *)

APPLICATION_XML == <<"application/xml">>

XmlContent == APPLICATION_XML :> [schema |-> None]

BodiesInfos ==
    {info \in [family : {"bodies"},
               declared : BOOLEAN,
               required : BOOLEAN,
               json : {"absent", "no_schema", "boolean", "string"},
               text : BOOLEAN,
               xml : BOOLEAN] :
        ~info.declared => (~info.required /\ info.json = "absent" /\ ~info.text /\ ~info.xml)}

BodiesApi(info) ==
    LET json == CASE info.json = "absent" -> <<>>
                  [] info.json = "no_schema" -> JsonContent(None)
                  [] info.json = "boolean" -> JsonContent(Some(Item(BooleanSchema)))
                  [] info.json = "string" ->
                         JsonContent(Some(Item(StringSchema(Some(VALID_PATTERN)))))
        content == json @@ (IF info.text THEN TextContent ELSE <<>>)
                        @@ (IF info.xml THEN XmlContent ELSE <<>>)
        request_body == IF info.declared
                        THEN Some(Item(RequestBody(info.required, content)))
                        ELSE None
    IN  [info |-> info,
         paths |-> <<PathOf(SLASH_A,
                            Item([NoOperations EXCEPT
                                     !.post = Some(Operation("postA", <<>>, request_body,
                                                             {Code(200)}))]))>>,
         components |-> None]

\* the bodies: empty, JSON tokens, text that is not JSON, bytes that are not UTF-8
Bodies == {<<>>, <<"true">>, <<"\"a\"">>, <<"babe">>, <<NOT_UTF8>>}

BodiesRequests ==
    {Request(Url(TRUE, SLASH_A, <<>>), POST,
             IF content_type = <<>> THEN <<>> ELSE CONTENT_TYPE :> content_type, body) :
        content_type \in {<<>>, APPLICATION_JSON, TEXT_PLAIN_UTF8, APPLICATION_XML,
                          <<"APPLICATION/JSON">>, <<"text/plain">>},
        body \in Bodies}

(* Family "responses": one get operation whose responses map declares any  *)
(* of three exact codes and three range wildcards; the responses carry      *)
(* status codes over the whole range of u16.                                *)

DeclarableResponses == {Code(200), Code(404), Code(600), Range(1), Range(2), Range(5)}

ResponsesApi(responses) ==
    [info |-> [family |-> "responses"],
     paths |-> <<PathOf(SLASH_A,
                        Item([NoOperations EXCEPT
                                 !.get = Some(Operation("getA", <<>>, None, responses))]))>>,
     components |-> None]

ResponsesRequests == {Request(Url(TRUE, SLASH_A, <<>>), GET, <<>>, <<>>)}

WideStatusCodes ==
    {0, 60, 99, 100, 150, 199, 200, 299, 404, 500, 599, 600, 999, 1000, 65535}

(* Family "operations": one path whose item declares any subset of six     *)
(* operations; the requests carry method tokens in several spellings.      *)

OperationFields == {"get", "put", "post", "delete", "patch", "head"}

OperationsApi(declared) ==
    [info |-> [family |-> "operations"],
     paths |-> <<PathOf(SLASH_A,
                        Item([field \in DOMAIN NoOperations |->
                                 IF field \in declared
                                 THEN Some(Operation(field, <<>>, None,
                                                     {Code(200)}))
                                 ELSE None]))>>,
     components |-> None]

MethodTokens ==
    {GET, PUT, POST, DELETE,
     <<"G", "E", "T">>, <<"G", "e", "t">>, <<"P", "U", "T">>, <<"P", "o", "s", "t">>,
     <<"P", "O", "S", "T">>, <<"D", "E", "L", "E", "T", "E">>,
     <<"p", "a", "t", "c", "h">>, <<"P", "A", "T", "C", "H">>, <<"h", "e", "a", "d">>,
     <<>>}

OperationsRequests ==
    {Request(Url(TRUE, SLASH_A, <<>>), operation, <<>>, <<>>) :
        operation \in MethodTokens}

Requests(family) ==
    CASE family = "pipeline" -> PipelineRequests
      [] family = "refs" -> RefRequests
      [] family = "cycles" -> RefRequests
      [] family = "paths" -> PathsRequests
      [] family = "operations" -> OperationsRequests
      [] family = "parameters" -> ParametersRequests
      [] family = "bindings" -> BindingsRequests
      [] family = "schemas" -> SchemasRequests
      [] family = "bodies" -> BodiesRequests
      [] family = "responses" -> ResponsesRequests

StatusCodes == {200, 250, 404, 600}

\* the status codes of the responses handed to validate_response
ResponseCodes(family) == IF family = "responses" THEN WideStatusCodes ELSE StatusCodes

----------------------------------------------------------------------------
(* The state machine *)

InitCall ==
    /\ pc = "idle"
    /\ request = None
    /\ validator = None
    /\ evaluated = <<>>
    /\ outcome = "None"
    /\ response_validator = None
    /\ response_outcome = None
    /\ input_schema \in Schemas(universe)
    /\ translated = None

\* Validator::new, on a specification with operations, parameters and bodies
Init ==
    /\ universe = "pipeline"
    /\ api \in {PipelineApi(info) : info \in PipelineInfos}
    /\ InitCall

InitRefs ==
    /\ universe = "refs"
    /\ api \in {RefApi(info) : info \in RefInfos}
    /\ InitCall

InitCycles ==
    /\ universe = "cycles"
    /\ api \in {CyclesApi(info) : info \in CyclesInfos}
    /\ InitCall

InitPaths ==
    /\ universe = "paths"
    /\ api \in {PathsApi(table) : table \in PathTables}
    /\ InitCall

InitOperations ==
    /\ universe = "operations"
    /\ api \in {OperationsApi(declared) : declared \in SUBSET OperationFields}
    /\ InitCall

InitParameters ==
    /\ universe = "parameters"
    /\ api \in {ParametersApi(info) : info \in ParametersInfos}
    /\ InitCall

InitBindings ==
    /\ universe = "bindings"
    /\ api \in {BindingsApi(info) : info \in BindingsInfos}
    /\ InitCall

InitSchemas ==
    /\ universe = "schemas"
    /\ api = SchemasApi
    /\ InitCall

InitBodies ==
    /\ universe = "bodies"
    /\ api \in {BodiesApi(info) : info \in BodiesInfos}
    /\ InitCall

InitResponses ==
    /\ universe = "responses"
    /\ api \in {ResponsesApi(responses) : responses \in SUBSET DeclarableResponses}
    /\ InitCall

\* validate_request is called with a request of the environment
Call ==
    /\ pc = "idle"
    /\ \E the_request \in Requests(universe) : request' = the_request
    /\ pc' = "parse_url"
    /\ validator' = None
    /\ evaluated' = <<>>
    /\ outcome' = "None"
    /\ response_validator' = None
    /\ response_outcome' = None
    /\ translated' = None
    /\ UNCHANGED <<api, universe, input_schema>>

\* faulty variant: validate_body takes the body out of the request
Stage_takes_body(stage, result) ==
    /\ pc = stage
    /\ LET next == next_stage(stage, result.status)
       IN  /\ evaluated' = Append(evaluated,
                                   [stage |-> stage, status |-> result.status,
                                    value |-> IF result.status = "Ok"
                                              THEN result.value
                                              ELSE None])
           /\ pc' = next
           /\ validator' = IF result.status = "Ok" THEN result.value ELSE validator
           /\ outcome' = IF next = "done" THEN result.status ELSE outcome
           /\ response_validator' =
                  IF next = "done" /\ result.status = "Ok"
                  THEN Some(result.value)
                  ELSE None
    /\ request' = IF stage = "validate_body" THEN [request EXCEPT !.body = <<>>] ELSE request
    /\ UNCHANGED <<api, universe, response_outcome, input_schema, translated>>

\* one stage of validate_request runs; the call returns after the last stage
\* or at the first stage that is not Ok, with the handle on acceptance only
Stage(stage, result) ==
    /\ pc = stage
    /\ LET next == next_stage(stage, result.status)
       IN  /\ evaluated' = Append(evaluated,
                                   [stage |-> stage, status |-> result.status,
                                    value |-> IF result.status = "Ok"
                                              THEN result.value
                                              ELSE None])
           /\ pc' = next
           /\ validator' = IF result.status = "Ok" THEN result.value ELSE validator
           /\ outcome' = IF next = "done" THEN result.status ELSE outcome
           /\ response_validator' =
                  IF next = "done" /\ result.status = "Ok"
                  THEN Some(result.value)
                  ELSE None
    /\ UNCHANGED <<api, universe, request, response_outcome, input_schema, translated>>

ParseUrl ==
    /\ pc = "parse_url"
    /\ Stage("parse_url", parse_url(request.url))

ValidatePath ==
    /\ pc = "validate_path"
    /\ Stage("validate_path", validate_path(api, validator.path))

ValidateOperation ==
    /\ pc = "validate_operation"
    /\ Stage("validate_operation", validate_operation(validator, request.operation))

ValidateParameters ==
    /\ pc = "validate_parameters"
    /\ Stage("validate_parameters", validate_parameters(validator, request))

ValidateContentType ==
    /\ pc = "validate_content_type"
    /\ Stage("validate_content_type",
             validate_content_type(validator, get_header(request, CONTENT_TYPE)))

ValidateBody ==
    /\ pc = "validate_body"
    /\ Stage("validate_body", validate_body(validator, request.body))

\* validate_response consumes the handle of the accepted request
ValidateResponse ==
    /\ pc = "done"
    /\ response_validator.kind = "Some"
    /\ \E status_code \in ResponseCodes(universe) :
           response_outcome' =
               Some([status_code |-> status_code,
                     response_spec |-> response_validator.value.response_spec,
                     status |-> validate_response(response_validator.value,
                                                  status_code).status])
    /\ response_validator' = None
    /\ UNCHANGED <<api, universe, request, pc, validator, evaluated, outcome,
                   input_schema, translated>>

\* to_json_schema is called on a schema, as the tests of the translators do;
\* the caller holds the result until its next call of validate_request
Translate ==
    /\ pc = "idle"
    /\ \E translator \in Translators(input_schema) :
           translated' = Some([translator |-> translator,
                               result |-> translate(translator, input_schema)])
    /\ UNCHANGED <<api, universe, request, pc, validator, evaluated, outcome,
                   response_validator, response_outcome, input_schema>>

\* the caller drops the result (and the handle) of the call; the validator
\* holds nothing of it
Return ==
    /\ pc = "done"
    /\ pc' = "idle"
    /\ request' = None
    /\ validator' = None
    /\ evaluated' = <<>>
    /\ outcome' = "None"
    /\ response_validator' = None
    /\ response_outcome' = None
    /\ UNCHANGED <<api, universe, input_schema, translated>>

Next ==
    \/ Call
    \/ ParseUrl
    \/ ValidatePath
    \/ ValidateOperation
    \/ ValidateParameters
    \/ ValidateContentType
    \/ ValidateBody
    \/ ValidateResponse
    \/ Translate
    \/ Return

Spec == Init /\ [][Next]_vars
SpecRefs == InitRefs /\ [][Next]_vars
SpecCycles == InitCycles /\ [][Next]_vars
SpecPaths == InitPaths /\ [][Next]_vars
SpecOperations == InitOperations /\ [][Next]_vars
SpecParameters == InitParameters /\ [][Next]_vars
SpecBindings == InitBindings /\ [][Next]_vars
SpecSchemas == InitSchemas /\ [][Next]_vars
SpecBodies == InitBodies /\ [][Next]_vars
SpecResponses == InitResponses /\ [][Next]_vars

----------------------------------------------------------------------------
(* Claims *)

Last(seq) == seq[Len(seq)]

\* C1: validate_request evaluates its stages in the fixed order URL parse, path
\* match, operation selection, parameter validation, content-type negotiation,
\* body validation; every stage evaluated before the last evaluated one was Ok,
\* so no stage is evaluated after a failing one, and the call returns what the
\* last evaluated stage returned (Ok only after all six).
C1_StagesInOrderFirstFailureEnds ==
    /\ Len(evaluated) <= Len(StageOrder)
    /\ \A i \in 1..Len(evaluated) : evaluated[i].stage = StageOrder[i]
    /\ \A i \in 1..(Len(evaluated) - 1) : evaluated[i].status = "Ok"
    /\ pc \notin {"idle", "done"} =>
          /\ pc = StageOrder[Len(evaluated) + 1]
          /\ outcome = "None"
    /\ pc = "done" =>
          /\ evaluated # <<>>
          /\ outcome = Last(evaluated).status
          /\ outcome = "Ok" => Len(evaluated) = Len(StageOrder)

\* C1 witness: the parameter stage rejected the request (a required header is
\* missing) and the call returned the rejection, although the content-type
\* stage would have hit a specification defect (a request body reference whose
\* name the components do not hold).
C1_Witness ==
    /\ pc = "done"
    /\ outcome = "Err"
    /\ Len(evaluated) = 4
    /\ validate_content_type(evaluated[3].value,
                             get_header(request, CONTENT_TYPE)).status = "Panic"

\* the operation the path item declares for a method token, by field name
declared_operation(path_spec, operation) ==
    CASE operation = GET -> path_spec["get"]
      [] operation = PUT -> path_spec["put"]
      [] operation = POST -> path_spec["post"]
      [] operation = DELETE -> path_spec["delete"]
      [] OTHER -> None

fails_to_compile(schema, components, input) ==
    LET fetched == schema_item_or_fetch(schema, components)
    IN  /\ fetched.status = "Ok"
        /\ to_json_schema(fetched.value).status = "Ok"
        /\ serde_json_from_slice(input).status = "Ok"
        /\ jsonschema_compile(to_json_schema(fetched.value).value).status = "Err"

\* the body stage compiled the document of the declared application/json schema
body_fails_to_compile(self, body) ==
    /\ self.mode = "JSONBody"
    /\ self.body_spec.content[APPLICATION_JSON].schema.kind = "Some"
    /\ from_utf8(body).status = "Ok"
    /\ fails_to_compile(self.body_spec.content[APPLICATION_JSON].schema.value,
                        self.components, body)

\* the parameter stage compiled the document of its first parameter, a header
\* parameter the request supplies
first_parameter_fails_to_compile(self, the_request) ==
    /\ self.operation_spec.parameters # <<>>
    /\ LET parameter == parameter_item_or_fetch(Head(self.operation_spec.parameters),
                                                self.components)
       IN  /\ parameter.status = "Ok"
           /\ parameter.value.kind = "Header"
           /\ parameter.value.parameter_data.format.kind = "Schema"
           /\ get_header(the_request, parameter.value.parameter_data.name).kind = "Some"
           /\ fails_to_compile(parameter.value.parameter_data.format.schema,
                               self.components,
                               the_request.headers[parameter.value.parameter_data.name])

\* C3: when the JSON Schema document generated for a parameter or for the body
\* fails to compile in the schema-evaluation collaborator, the stage (and the
\* call) ends in a fatal outcome, not in the rejection value Err that a
\* non-conforming request gets.
C3_CompileFailureIsFatal ==
    /\ (Len(evaluated) >= 4 /\ first_parameter_fails_to_compile(evaluated[3].value, request))
          => evaluated[4].status = "Panic"
    /\ (Len(evaluated) >= 6 /\ body_fails_to_compile(evaluated[5].value, request.body))
          => evaluated[6].status = "Panic"

\* the chain of the specification is broken: a name of it is not in the
\* section, or the specification has no components at all
chain_broken(info) == info.missing > 0 \/ info.components_absent

\* the post operation of the one path of a "refs" specification
ref_operation(the_api) == the_api.paths[1].item.item.post.value

\* the call resolved the indirect item of the specification in `stage`
resolved_in(info, stage) ==
    CASE info.target = "parameter" ->
             stage = 4 /\ Len(evaluated) >= 4
      [] info.target = "parameter_schema" ->
             stage = 4 /\ Len(evaluated) >= 4 /\ THING \in DOMAIN request.headers
      [] info.target = "request_body" ->
             stage = 5 /\ Len(evaluated) >= 5
      [] info.target = "body_schema" ->
             /\ stage = 6
             /\ Len(evaluated) >= 6
             /\ evaluated[5].value.mode = "JSONBody"

\* item_or_fetch on the head of the chain of the specification
resolve_head(the_api) ==
    LET info == the_api.info
        operation == ref_operation(the_api)
    IN  CASE info.target = "parameter" ->
                 parameter_item_or_fetch(operation.parameters[1], the_api.components)
          [] info.target = "parameter_schema" ->
                 schema_item_or_fetch(
                     operation.parameters[1].item.parameter_data.format.schema,
                     the_api.components)
          [] info.target = "request_body" ->
                 request_body_item_or_fetch(operation.request_body.value,
                                            the_api.components)
          [] info.target = "body_schema" ->
                 schema_item_or_fetch(
                     operation.request_body.value.item.content[APPLICATION_JSON]
                         .schema.value,
                     the_api.components)

\* C4: resolving a reference whose chain names, at any level, a name the
\* component section does not hold, or resolving any reference when the
\* component table is absent, panics; the stage that resolves it, and so the
\* call, ends in Panic and never in the rejection value Err.
C4_MissingReferencePanics ==
    chain_broken(api.info) =>
        /\ resolve_head(api).status = "Panic"
        /\ \A stage \in 4..6 :
               resolved_in(api.info, stage) =>
                   /\ evaluated[stage].status = "Panic"
                   /\ pc = "done"
                   /\ outcome = "Panic"

\* C4 witness: a chain of two references whose second name is missing was
\* resolved by a call, which ended in Panic.
C4_Witness ==
    /\ api.info.depth = 2
    /\ api.info.missing = 2
    /\ pc = "done"
    /\ outcome = "Panic"
    /\ \E stage \in 4..6 : resolved_in(api.info, stage)

\* the same specification with the item given inline
inline_twin(the_api) == RefApi([the_api.info EXCEPT !.depth = 0])

\* C5: for every request, the call on a specification whose body schema,
\* parameter, parameter schema or request body is reached through one or two
\* levels of references returns what the call on the same specification with
\* that item inline returns, stage by stage.
C5_ReferenceTransparency ==
    (~chain_broken(api.info) /\ pc = "done") =>
        /\ outcome = validate_request(inline_twin(api), request).status
        /\ outcome \in {"Ok", "Err"}

\* C5 witnesses: a request with a body accepted, and one rejected in the body
\* stage, through two levels of references.
C5_Witness ==
    /\ api.info.depth = 2
    /\ api.info.missing = 0
    /\ pc = "done"
    /\ Len(evaluated) = 6
    /\ request.body # <<>>
    /\ \E stage \in 4..6 : resolved_in(api.info, stage)

\* the path handed to validate_path by the call in progress
request_path == evaluated[1].value.path

\* p with a trailing slash, with one or two more leading slashes, and with any
\* one of its slashes duplicated
slash_variants(p) ==
    {p \o <<"/">>, <<"/">> \o p, <<"/", "/">> \o p}
        \cup {SubSeq(p, 1, i) \o <<"/">> \o SubSeq(p, i + 1, Len(p)) :
                 i \in {j \in 1..Len(p) : p[j] = "/"}}

\* C6: path matching is normalization-invariant: the path stage returns for the
\* request path p what validate_path returns for p, and validate_path returns
\* the same result (the same path item with the same bindings, or no match) for
\* p with a trailing slash, with doubled leading slashes and with any slash
\* duplicated.
C6_PathMatchingNormalizationInvariant ==
    (Len(evaluated) >= 2) =>
        LET matched == validate_path(api, request_path)
        IN  /\ evaluated[2].status = matched.status
            /\ matched.status = "Ok" => evaluated[2].value = matched.value
            /\ \A q \in slash_variants(request_path) : validate_path(api, q) = matched

\* C6 witness: a request path with a doubled and a trailing slash matched a
\* template with a variable, which it bound.
C6_Witness ==
    /\ Len(evaluated) >= 2
    /\ evaluated[2].status = "Ok"
    /\ DOMAIN evaluated[2].value.path_parameters # {}
    /\ Last(request_path) = "/"
    /\ \E i \in 1..(Len(request_path) - 1) :
           request_path[i] = "/" /\ request_path[i + 1] = "/"

\* a template matches a request path: the normalized segment sequences have
\* equal length and every template segment that is not a variable equals the
\* request segment at its position
template_matches(template, path) ==
    LET spec_segments == split_path(template)
        request_segments == split_path(path)
    IN  /\ Len(spec_segments) = Len(request_segments)
        /\ \A i \in 1..Len(spec_segments) :
               \/ is_parameter_segment(spec_segments[i])
               \/ spec_segments[i] = request_segments[i]

matching_templates(the_api, path) ==
    {i \in 1..Len(the_api.paths) : template_matches(the_api.paths[i].path, path)}

\* C7: list_matches holds of a template and a request path exactly when their
\* normalized segment sequences have equal length and every Fixed segment
\* equals the request segment at its position; the path stage ends in the
\* rejection value Err, not in a panic, exactly when no template matches.
C7_MatchIffEqualLengthAndFixedEqual ==
    (Len(evaluated) >= 2) =>
        /\ \A i \in 1..Len(api.paths) :
               list_matches(list_from_str(api.paths[i].path), split_path(request_path))
                   <=> template_matches(api.paths[i].path, request_path)
        /\ evaluated[2].status = "Err" <=> matching_templates(api, request_path) = {}

\* C7 witness: a request path of two segments matched no template, although a
\* template has two segments, and the call returned the rejection.
C7_Witness ==
    /\ pc = "done"
    /\ Len(evaluated) = 2
    /\ outcome = "Err"
    /\ Len(split_path(request_path)) = 2
    /\ \E i \in 1..Len(api.paths) : Len(split_path(api.paths[i].path)) = 2

\* C8: when several templates match, the path stage selects the one that comes
\* first in the iteration order of the specification's paths.
C8_FirstMatchingTemplateWins ==
    (Len(evaluated) >= 2 /\ evaluated[2].status = "Ok") =>
        LET first == Min(matching_templates(api, request_path))
        IN  /\ evaluated[2].value.spec_path = api.paths[first].path
            /\ evaluated[2].value.path_spec = api.paths[first].item.item

\* C8 witness: the selected template has a variable where a later matching
\* template has a Fixed segment.
C8_Witness ==
    /\ Len(evaluated) >= 2
    /\ evaluated[2].status = "Ok"
    /\ \E j \in matching_templates(api, request_path) :
           /\ api.paths[j].path # evaluated[2].value.spec_path
           /\ \E k \in 1..Len(split_path(api.paths[j].path)) :
                  /\ ~is_parameter_segment(split_path(api.paths[j].path)[k])
                  /\ is_parameter_segment(split_path(evaluated[2].value.spec_path)[k])

\* str::to_lowercase on the letters of the method tokens
lower_char(c) ==
    CASE c = "G" -> "g" [] c = "E" -> "e" [] c = "T" -> "t" [] c = "P" -> "p"
      [] c = "O" -> "o" [] c = "S" -> "s" [] c = "U" -> "u" [] c = "D" -> "d"
      [] c = "L" -> "l" [] c = "A" -> "a" [] c = "C" -> "c" [] c = "H" -> "h"
      [] OTHER -> c

to_lowercase(s) == [i \in 1..Len(s) |-> lower_char(s[i])]

\* the path item and the method token handed to the operation selector
selected_path_spec == evaluated[2].value.path_spec

\* C9: the operation selector would treat the method token case-insensitively,
\* selecting for a token what it selects for the token in lower case.  The
\* selector compares the token as given: an upper-case token selects nothing.
C9_MethodTokenIsLowerCased ==
    (Len(evaluated) >= 3) =>
        evaluated[3].status
            = select_operation(selected_path_spec, to_lowercase(request.operation)).status

\* C9: the state the code reaches against the statement: the token in lower
\* case names a declared operation, and the selector rejected the request.
C9_UpperCaseTokenRejected ==
    /\ Len(evaluated) >= 3
    /\ evaluated[3].status = "Err"
    /\ request.operation # to_lowercase(request.operation)
    /\ select_operation(selected_path_spec, to_lowercase(request.operation)).status = "Ok"

\* C10: the operation selector accepts exactly when the method token is one of
\* get, put, post and delete and the path item declares that operation, and then
\* selects that operation; every other token is a rejection although the path
\* item declares an operation for it, and so is one of the four the path item
\* does not declare.
C10_OnlyFourMethodsAndDeclared ==
    (Len(evaluated) >= 3) =>
        LET declared == declared_operation(selected_path_spec, request.operation)
            accepted == /\ request.operation \in {GET, PUT, POST, DELETE}
                        /\ declared.kind = "Some"
        IN  /\ evaluated[3].status = (IF accepted THEN "Ok" ELSE "Err")
            /\ accepted => evaluated[3].value.operation_spec = declared.value

\* C10 witness: a token that is none of the four was rejected on a path item
\* that declares an operation for it.
C10_Witness ==
    /\ Len(evaluated) >= 3
    /\ evaluated[3].status = "Err"
    /\ request.operation = <<"p", "a", "t", "c", "h">>
    /\ selected_path_spec.patch.kind = "Some"

\* the parameters the selected operation declares (inline in the "parameters"
\* specifications), and what the parameter stage was given
declared_parameters ==
    [i \in 1..Len(evaluated[3].value.operation_spec.parameters) |->
        evaluated[3].value.operation_spec.parameters[i].item]

\* the value the request supplies for a parameter, read off the request and the
\* matched template: the header of its name, the first query pair of its name,
\* the request segment at the template variable of its name
supplied_value(parameter) ==
    LET name == parameter.parameter_data.name
        template == split_path(evaluated[2].value.spec_path)
        pairs == {i \in 1..Len(request.url.query) : request.url.query[i][1] = name}
        positions == {i \in 1..Len(template) : template[i] = <<"{">> \o name \o <<"}">>}
    IN  CASE parameter.kind = "Header" ->
                 IF name \in DOMAIN request.headers THEN Some(request.headers[name]) ELSE None
          [] parameter.kind = "Query" ->
                 IF pairs = {} THEN None ELSE Some(request.url.query[Min(pairs)][2])
          [] parameter.kind = "Path" ->
                 IF positions = {}
                 THEN None
                 ELSE Some(split_path(request.url.path)[Min(positions)])

\* the outcome of the parameter stage's check of one declared parameter
parameter_outcome(parameter) ==
    validate(parameter, request, evaluated[3].value.components,
             evaluated[3].value.path_parameters).status

\* C11: a declared header, query or path parameter for which the request
\* supplies no value passes when it is optional and is a rejection when it is
\* required; a path parameter whose name the matched template does not bind has
\* no value.  The parameter stage rejects when a required parameter has no
\* value and accepts when every declared parameter is optional and has none.
C11_MissingParameterPassesIffOptional ==
    (Len(evaluated) >= 4) =>
        LET missing == {i \in 1..Len(declared_parameters) :
                           supplied_value(declared_parameters[i]).kind = "None"}
        IN  /\ \A i \in missing :
                   parameter_outcome(declared_parameters[i])
                       = (IF declared_parameters[i].parameter_data.required
                          THEN "Err" ELSE "Ok")
            /\ (\E i \in missing : declared_parameters[i].parameter_data.required)
                   => evaluated[4].status = "Err"
            /\ (/\ missing = 1..Len(declared_parameters)
                /\ \A i \in missing : ~declared_parameters[i].parameter_data.required)
                   => evaluated[4].status = "Ok"

\* C11 witness: a required path parameter whose name the matched template does
\* not bind was a rejection, the only declared parameter being that one.
C11_Witness ==
    /\ pc = "done"
    /\ Len(evaluated) = 4
    /\ outcome = "Err"
    /\ Len(declared_parameters) = 1
    /\ declared_parameters[1].kind = "Path"
    /\ declared_parameters[1].parameter_data.required
    /\ DOMAIN evaluated[3].value.path_parameters # {}
    /\ supplied_value(declared_parameters[1]).kind = "None"

\* a text is a JSON token that satisfies the schema: true and false for a
\* boolean schema, the quoted string "a" for a string schema of pattern ^a$
token_conforms(schema, text) ==
    CASE schema.schema_kind = "Boolean" -> text \in {<<"true">>, <<"false">>}
      [] schema.schema_kind = "String" ->
             /\ schema.string.pattern = Some(VALID_PATTERN)
             /\ text = <<"\"a\"">>

C13_AllDeclaredParametersMustPass ==
    (Len(evaluated) >= 4) =>
        /\ evaluated[4].status \in {"Ok", "Err"}
        /\ evaluated[4].status = "Ok"
               <=> \A i \in 1..Len(declared_parameters) :
                       parameter_outcome(declared_parameters[i]) = "Ok"
        /\ declared_parameters = <<>> => evaluated[4].status = "Ok"

\* C13 witness: of two declared parameters the first passed and the second did
\* not, and the request was rejected.
C13_Witness ==
    /\ pc = "done"
    /\ Len(evaluated) = 4
    /\ outcome = "Err"
    /\ Len(declared_parameters) = 2
    /\ parameter_outcome(declared_parameters[1]) = "Ok"
    /\ parameter_outcome(declared_parameters[2]) = "Err"

\* the request body the selected operation declares (inline in the "bodies"
\* specifications), the Content-Type header of the request, and the outcomes
\* of the content-type and body stages
declared_body == evaluated[3].value.operation_spec.request_body

content_type_header ==
    IF CONTENT_TYPE \in DOMAIN request.headers
    THEN Some(request.headers[CONTENT_TYPE])
    ELSE None

negotiated == evaluated[5]

body_outcome == evaluated[6].status

\* C14: content negotiation is a total case analysis.  Without a request-body
\* specification the mode is NoSpecification whatever the header and the body
\* are, and the body is accepted.  With one: no Content-Type header gives
\* EmptyContentType; a header value that is not a declared content type is a
\* rejection; a declared application/json gives JSONBody; a declared
\* text/plain; charset=utf-8 gives PlainUTF8Body; any other declared value is a
\* rejection.
C14_ContentNegotiationCases ==
    (Len(evaluated) >= 5) =>
        IF declared_body.kind = "None"
        THEN /\ negotiated.status = "Ok"
             /\ negotiated.value.mode = "NoSpecification"
             /\ Len(evaluated) >= 6 => body_outcome = "Ok"
        ELSE LET content == declared_body.value.item.content
             IN  CASE content_type_header.kind = "None" ->
                          /\ negotiated.status = "Ok"
                          /\ negotiated.value.mode = "EmptyContentType"
                   [] content_type_header.kind = "Some"
                        /\ content_type_header.value \notin DOMAIN content ->
                          negotiated.status = "Err"
                   [] content_type_header.kind = "Some"
                        /\ content_type_header.value \in DOMAIN content
                        /\ content_type_header.value = APPLICATION_JSON ->
                          /\ negotiated.status = "Ok"
                          /\ negotiated.value.mode = "JSONBody"
                   [] content_type_header.kind = "Some"
                        /\ content_type_header.value \in DOMAIN content
                        /\ content_type_header.value = TEXT_PLAIN_UTF8 ->
                          /\ negotiated.status = "Ok"
                          /\ negotiated.value.mode = "PlainUTF8Body"
                   [] OTHER -> negotiated.status = "Err"

\* C14 witness: the header names a content type the specification declares
\* (application/xml) that is neither of the two supported, and the request was
\* rejected by the content-type stage.
C14_Witness ==
    /\ pc = "done"
    /\ Len(evaluated) = 5
    /\ outcome = "Err"
    /\ declared_body.kind = "Some"
    /\ content_type_header = Some(APPLICATION_XML)
    /\ APPLICATION_XML \in DOMAIN declared_body.value.item.content

\* C15: when the operation declares a request body and the request has no
\* Content-Type header, the body stage accepts exactly when the body is empty
\* and the declared body is not required.
C15_NoContentTypeAcceptsIffEmptyAndOptional ==
    (/\ Len(evaluated) >= 6
     /\ declared_body.kind = "Some"
     /\ content_type_header.kind = "None") =>
        body_outcome = (IF request.body = <<>> /\ ~declared_body.value.item.required
                        THEN "Ok" ELSE "Err")

\* C15 witness: a body that is not empty, sent without a Content-Type header
\* to an operation whose body is optional, was rejected.
C15_Witness ==
    /\ pc = "done"
    /\ Len(evaluated) = 6
    /\ outcome = "Err"
    /\ declared_body.kind = "Some"
    /\ ~declared_body.value.item.required
    /\ content_type_header.kind = "None"
    /\ request.body # <<>>

\* C16: required-body law: an empty body is rejected for every operation whose
\* request body is required, in every content-type mode (no Content-Type
\* header, application/json, text/plain; charset=utf-8).
C16_RequiredBodyRejectsEmpty ==
    (/\ Len(evaluated) >= 6
     /\ declared_body.kind = "Some"
     /\ declared_body.value.item.required
     /\ request.body = <<>>) =>
        body_outcome = "Err"

\* C16: the state the code reaches against the law: an empty body under
\* text/plain; charset=utf-8 is accepted although the body is required.
C16_RequiredEmptyTextBodyAccepted ==
    /\ pc = "done"
    /\ outcome = "Ok"
    /\ declared_body.kind = "Some"
    /\ declared_body.value.item.required
    /\ request.body = <<>>
    /\ negotiated.value.mode = "PlainUTF8Body"

\* C17: optional-empty law: an empty body is accepted by the content-type and
\* body stages for every operation whose request body is optional, without a
\* Content-Type header and with a header naming any declared content type; it
\* is rejected only when the header names a content type that is not declared.
C17_OptionalEmptyBodyAccepted ==
    (/\ Len(evaluated) >= 5
     /\ declared_body.kind = "Some"
     /\ ~declared_body.value.item.required
     /\ request.body = <<>>) =>
        IF \/ content_type_header.kind = "None"
           \/ content_type_header.value \in DOMAIN declared_body.value.item.content
        THEN /\ negotiated.status = "Ok"
             /\ Len(evaluated) >= 6 => body_outcome = "Ok"
        ELSE negotiated.status = "Err"

\* C17: the state the code reaches against the law: an empty body under a
\* declared application/json is rejected by the body stage although the body
\* is optional.
C17_OptionalEmptyJsonBodyRejected ==
    /\ pc = "done"
    /\ Len(evaluated) = 6
    /\ outcome = "Err"
    /\ declared_body.kind = "Some"
    /\ ~declared_body.value.item.required
    /\ request.body = <<>>
    /\ negotiated.value.mode = "JSONBody"

\* the texts of the model that serde_json parses as a JSON value
is_json(text) ==
    text \in {<<"true">>, <<"false">>, <<"1">>, <<"\"a\"">>, <<"\"b\"">>}

\* C18: in JSONBody mode with a schema declared for application/json the body
\* is accepted exactly when it parses as JSON and the value satisfies the
\* schema; with no schema declared, exactly when it parses as JSON.  A body
\* that does not parse is the rejection Err, as a schema mismatch is, never a
\* panic.
C18_JsonBodyAcceptedIffParsesAndConforms ==
    (Len(evaluated) >= 6 /\ negotiated.value.mode = "JSONBody") =>
        LET schema == declared_body.value.item.content[APPLICATION_JSON].schema
        IN  IF schema.kind = "Some"
            THEN body_outcome = (IF /\ is_json(request.body)
                                    /\ token_conforms(schema.value.item, request.body)
                                 THEN "Ok" ELSE "Err")
            ELSE body_outcome = (IF is_json(request.body) THEN "Ok" ELSE "Err")

\* C18 witness: a body that is JSON and does not satisfy the declared schema
\* was rejected by the body stage.
C18_Witness ==
    /\ pc = "done"
    /\ Len(evaluated) = 6
    /\ outcome = "Err"
    /\ negotiated.value.mode = "JSONBody"
    /\ declared_body.value.item.content[APPLICATION_JSON].schema.kind = "Some"
    /\ is_json(request.body)

\* the response validate_response was called with: its status code, the
\* responses map of the handle and the outcome
checked_response == response_outcome.value

declares(entry) == entry \in checked_response.response_spec.responses

\* C19: for every status code c in 100..599 validate_response accepts exactly
\* when the responses map declares the code c or the range wildcard of c's
\* hundreds digit: a code whose wildcard alone is declared is accepted, a code
\* with neither declared is the rejection Err.
C19_ExactCodeOrRangeWildcard ==
    (/\ response_outcome.kind = "Some"
     /\ checked_response.status_code \in 100..599) =>
        checked_response.status
            = (IF \/ declares(Code(checked_response.status_code))
                  \/ declares(Range(checked_response.status_code \div 100))
               THEN "Ok" ELSE "Err")

\* C19 witness: a code that is not declared and whose range wildcard is
\* declared was accepted.
C19_Witness ==
    /\ response_outcome.kind = "Some"
    /\ checked_response.status_code \in 100..599
    /\ ~declares(Code(checked_response.status_code))
    /\ declares(Range(checked_response.status_code \div 100))
    /\ checked_response.status = "Ok"

RECURSIVE leading_digit(_)
leading_digit(n) == IF n < 10 THEN n ELSE leading_digit(n \div 10)

\* C20 as stated: every status code whose leading digit is outside 1..5 makes
\* validate_response panic.  A code the responses map declares exactly is
\* accepted before its range is computed.
C20_LeadingDigitOutsideRangeIsFatal ==
    (/\ response_outcome.kind = "Some"
     /\ leading_digit(checked_response.status_code) \notin 1..5) =>
        checked_response.status = "Panic"

\* C20 amended: every status code whose leading digit is outside 1..5 and that
\* the responses map does not declare exactly makes validate_response panic
\* (todo!()), not return the rejection Err.
C20_UndeclaredCodeOutsideRangeIsFatal ==
    (/\ response_outcome.kind = "Some"
     /\ leading_digit(checked_response.status_code) \notin 1..5
     /\ ~declares(Code(checked_response.status_code))) =>
        checked_response.status = "Panic"

\* C20 witness: the code 600, not declared, made validate_response panic
\* although the wildcard 5XX is declared.
C20_Witness ==
    /\ response_outcome.kind = "Some"
    /\ checked_response.status_code = 600
    /\ ~declares(Code(600))
    /\ declares(Range(5))
    /\ checked_response.status = "Panic"

C27_ParametersOnlyAfterUrlParsed ==
    /\ (Len(evaluated) >= 2) =>
           /\ evaluated[1].status = "Ok"
           /\ request.url.has_scheme
           /\ parse_url(request.url).status = "Ok"
    /\ (Len(evaluated) >= 1 /\ ~request.url.has_scheme) =>
           /\ Len(evaluated) = 1
           /\ evaluated[1].status = "Err"
           /\ pc = "done"
           /\ outcome = "Err"

\* C27 witness: a request without a scheme to a path and an operation the
\* specification declares, with a required parameter the request lacks and
\* whose resolution would panic, was rejected by the first stage.
C27_Witness ==
    /\ pc = "done"
    /\ Len(evaluated) = 1
    /\ outcome = "Err"
    /\ ~request.url.has_scheme
    /\ request.url.path = SLASH_A
    /\ request.operation = POST
    /\ api.info.param = "dangling"

\* C30: validate_response looks the exact status code up before it derives the
\* range wildcard and derives the range only when the exact code is not
\* declared: a code declared exactly is accepted, without a panic, also outside
\* 100..599, and whether or not a range wildcard is declared as well; outside
\* 100..599 the call panics exactly when the code is not declared.
C30_ExactCodeDecidesBeforeRange ==
    (response_outcome.kind = "Some") =>
        /\ declares(Code(checked_response.status_code)) => checked_response.status = "Ok"
        /\ checked_response.status_code \notin 100..599 =>
               (checked_response.status = "Panic"
                    <=> ~declares(Code(checked_response.status_code)))

\* C30 witness: the code 600, declared exactly on a responses map that
\* declares the wildcard 5XX as well, was accepted.
C30_Witness ==
    /\ response_outcome.kind = "Some"
    /\ checked_response.status_code = 600
    /\ declares(Code(600))
    /\ declares(Range(5))
    /\ checked_response.status = "Ok"

\* the component section and the path prefix the chain of the specification is in
chain_of(the_api) ==
    CASE the_api.info.target = "parameter" ->
             [section |-> the_api.components.value.parameters, path |-> PARAMETERS_PATH]
      [] the_api.info.target = "request_body" ->
             [section |-> the_api.components.value.request_bodies,
              path |-> REQUEST_BODIES_PATH]
      [] OTHER ->
             [section |-> the_api.components.value.schemas, path |-> SCHEMAS_PATH]

\* the number of references between the n-th name of the chain and its item
RECURSIVE references_from(_, _)
references_from(the_api, n) ==
    LET entry == chain_of(the_api).section[chain_name(n)]
    IN  IF entry.kind = "Item"
        THEN 0
        ELSE 1 + references_from(the_api,
                                 Len(trim_start_matches(entry.reference,
                                                        chain_of(the_api).path)))

\* the same specification with the item given inline
cycles_inline_twin(the_api) ==
    CyclesApi([the_api.info EXCEPT !.depth = 0, !.cyclic = FALSE])

\* C28: reference resolution detects no cycle. A chain of n references that
\* ends in a concrete item resolves to that item, the one the specification
\* with the item inline resolves to; a chain that returns to a name already
\* visited never returns: the resolution, the stage that resolves it and the
\* call end neither in an item, nor in the rejection value, nor in a panic.
C28_NoCycleDetection ==
    /\ ~api.info.cyclic =>
           /\ api.info.depth >= 1 => 1 + references_from(api, 1) = api.info.depth
           /\ resolve_head(api).status = "Ok"
           /\ resolve_head(api) = resolve_head(cycles_inline_twin(api))
           /\ \A stage \in 4..6 :
                  resolved_in(api.info, stage) =>
                      evaluated[stage].status \in {"Ok", "Err"}
    /\ api.info.cyclic =>
           /\ resolve_head(api).status = "Diverge"
           /\ \A stage \in 4..6 :
                  resolved_in(api.info, stage) =>
                      /\ evaluated[stage].status = "Diverge"
                      /\ pc = "done"
                      /\ outcome = "Diverge"

\* C28 witness: a call resolved a body schema whose chain of two references
\* returns to its first name, and did not return.
C28_Witness ==
    /\ api.info.cyclic
    /\ api.info.depth = 2
    /\ api.info.target = "body_schema"
    /\ resolved_in(api.info, 6)
    /\ outcome = "Diverge"

\* the segments of the matched template and of the request path, and the
\* bindings the path stage produced
template_segments == list_from_str(evaluated[2].value.spec_path)
request_segments == split_path(request_path)
bindings == evaluated[2].value.path_parameters

\* the positions of the Variable segments of the matched template, and those
\* of one name
variable_positions ==
    {i \in 1..Len(template_segments) : template_segments[i].kind = "Parameter"}
positions_of(name) == {i \in variable_positions : template_segments[i].name = name}

\* the outcome the check of a text against the schema of a parameter has
checked_against(parameter, text) ==
    IF token_conforms(parameter.parameter_data.format.schema.item, text)
    THEN "Ok"
    ELSE "Err"

\* a Path parameter whose name is bound is validated against the bound value,
\* and the parameter stage, which has no other parameter, ends as that check
path_parameter_checked_against_binding ==
    (Len(evaluated) >= 4) =>
        \A i \in 1..Len(declared_parameters) :
            LET parameter == declared_parameters[i]
                name == parameter.parameter_data.name
            IN  (parameter.kind = "Path" /\ name \in DOMAIN bindings) =>
                    /\ parameter_outcome(parameter)
                           = checked_against(parameter, bindings[name])
                    /\ evaluated[4].status = parameter_outcome(parameter)
                    /\ evaluated[3].value.path_parameters = bindings

\* C22 as stated: on a match the bindings contain exactly the names of the
\* template's Variable segments, each mapped to the request segment at the
\* same position after normalization; Fixed segments contribute no binding; a
\* Path parameter is validated against the value bound to its name.
C22_EachVariableBoundAtItsPosition ==
    (Len(evaluated) >= 2 /\ evaluated[2].status = "Ok") =>
        /\ DOMAIN bindings = {template_segments[i].name : i \in variable_positions}
        /\ \A i \in variable_positions :
               bindings[template_segments[i].name] = request_segments[i]
        /\ path_parameter_checked_against_binding

\* C22, amended: on a match the bindings contain exactly the names of the
\* template's Variable segments, each mapped to the request segment at the
\* position of the last Variable segment of that name (its own position when
\* the name is used once) after normalization; Fixed segments contribute no
\* binding; a Path parameter is validated against the value bound to its name.
C22_EachNameBoundAtItsLastPosition ==
    (Len(evaluated) >= 2 /\ evaluated[2].status = "Ok") =>
        /\ DOMAIN bindings = {template_segments[i].name : i \in variable_positions}
        /\ \A name \in DOMAIN bindings :
               /\ positions_of(name) # {}
               /\ bindings[name]
                      = request_segments[CHOOSE i \in positions_of(name) :
                                             \A j \in positions_of(name) : j <= i]
        /\ path_parameter_checked_against_binding

\* C22 witness: on the template /a/{x}, a request path with empty segments
\* bound x to its second segment only, and the Path parameter x was accepted
\* on that value.
C22_Witness ==
    /\ pc = "done"
    /\ outcome = "Ok"
    /\ api.info.template = <<"/", "a", "/", "{", "x", "}">>
    /\ api.info.parameter = NAME_X
    /\ request.url.path = <<"/", "/", "a", "/", "/", "true", "/">>
    /\ bindings = (NAME_X :> <<"true">>)

\* the request of the call with the first segment of its path replaced
with_first_segment(segment) ==
    [request EXCEPT !.url.path = <<"/">> \o segment \o <<"/">> \o request_segments[2]]

\* C29: when the matched template uses one variable name in more than one
\* segment, the bindings hold a single entry for that name, whose value is the
\* request segment at the last such position; a Path parameter of that name
\* is validated against that segment only: the call ends as the check of the
\* last segment does, whatever the segment at the earlier position is.
C29_DuplicateNameKeepsLastSegment ==
    (/\ Len(evaluated) >= 2
     /\ evaluated[2].status = "Ok"
     /\ \E name \in DOMAIN bindings : Cardinality(positions_of(name)) > 1) =>
        /\ bindings = (NAME_X :> request_segments[2])
        /\ (pc = "done" /\ api.info.parameter = NAME_X) =>
               /\ outcome = checked_against(declared_parameters[1], request_segments[2])
               /\ \A segment \in ParameterValues :
                      validate_request(api, with_first_segment(segment)).status = outcome

\* C29 witness: on the template /{x}/{x} the request /a/true, whose first
\* segment does not satisfy the boolean schema of the Path parameter x, was
\* accepted.
C29_Witness ==
    /\ pc = "done"
    /\ outcome = "Ok"
    /\ api.info.template = <<"/", "{", "x", "}", "/", "{", "x", "}">>
    /\ api.info.parameter = NAME_X
    /\ api.info.schema = "boolean"
    /\ request.url.path = <<"/", "a", "/", "true">>

\* the document a to_json_schema call that returned has returned
translation == translated.value.result.value

\* the flags and bounds of a Number or Integer schema
numeric_type(the_schema) ==
    IF the_schema.schema_kind = "Number" THEN the_schema.number ELSE the_schema.integer

\* C23: in the translation of a Number or Integer schema, by either
\* translator of the repository, the key exclusiveMinimum is present exactly
\* when the flag exclusive_minimum is true and the key exclusiveMaximum exactly
\* when the flag exclusive_maximum is true, and a key that is present has the
\* value true, whatever the other flag is.
C23_ExclusiveKeysFollowTheirOwnFlag ==
    (translated.kind = "Some" /\ input_schema.schema_kind \in {"Number", "Integer"}) =>
        /\ translated.value.result.status = "Ok"
        /\ ("exclusiveMinimum" \in DOMAIN translation)
               <=> numeric_type(input_schema).exclusive_minimum
        /\ ("exclusiveMaximum" \in DOMAIN translation)
               <=> numeric_type(input_schema).exclusive_maximum
        /\ ("exclusiveMinimum" \in DOMAIN translation)
               => translation["exclusiveMinimum"] = TRUE
        /\ ("exclusiveMaximum" \in DOMAIN translation)
               => translation["exclusiveMaximum"] = TRUE

\* C23 witness: src/jsonschema.rs translated an integer schema whose only flag
\* is exclusive_maximum, and the value under exclusiveMaximum is false.
C23_Witness ==
    /\ translated.kind = "Some"
    /\ translated.value.translator = JSONSCHEMA
    /\ input_schema = IntegerSchema(None, FALSE, TRUE)
    /\ translation["exclusiveMaximum"] = FALSE

\* a schema reference with the component table applied to it
resolved(schema_ref) ==
    IF schema_ref.kind = "Reference"
    THEN Item(schema_item_or_fetch(schema_ref, api.components).value)
    ELSE schema_ref

\* the schema with the references under properties, oneOf, allOf, anyOf and
\* not replaced by the schemas the component table holds for them
inlined(the_schema) ==
    CASE the_schema.schema_kind = "Object" /\ DOMAIN the_schema.object.properties # {} ->
             [the_schema EXCEPT !.object.properties =
                                    [name \in DOMAIN @ |-> resolved(@[name])]]
      [] the_schema.schema_kind = "OneOf" ->
             [the_schema EXCEPT !.one_of = [i \in 1..Len(@) |-> resolved(@[i])]]
      [] the_schema.schema_kind = "AllOf" ->
             [the_schema EXCEPT !.all_of = [i \in 1..Len(@) |-> resolved(@[i])]]
      [] the_schema.schema_kind = "AnyOf" ->
             [the_schema EXCEPT !.any_of = [i \in 1..Len(@) |-> resolved(@[i])]]
      [] the_schema.schema_kind = "Not" ->
             [the_schema EXCEPT !.not = resolved(@)]
      [] OTHER -> the_schema

\* C24: a schema with an indirect reference under an object property, as an
\* element of oneOf, allOf or anyOf, or as the operand of not, is translated as
\* the schema with the reference resolved through the component table is: the
\* translation does not fail and is the translation of the inline schema.
C24_NestedReferencesAreResolved ==
    (/\ translated.kind = "Some"
     /\ translated.value.translator = TO_JSONSCHEMA
     /\ inlined(input_schema) # input_schema
     /\ to_json_schema(inlined(input_schema)).status = "Ok") =>
        /\ translated.value.result.status = "Ok"
        /\ translated.value.result = to_json_schema(inlined(input_schema))

\* C24 witness: the translation of an object whose property p is a reference
\* to the boolean schema n of the components panicked.
C24_Witness ==
    /\ translated.kind = "Some"
    /\ input_schema = ObjectSchema("p" :> SCHEMA_REFERENCE, None)
    /\ resolved(SCHEMA_REFERENCE) = Item(BooleanSchema)
    /\ translated.value.result.status = "Panic"

\* C25: translating an Array schema whose items is an indirect reference does
\* not fail: the output has no items key and has type array, minItems and
\* maxItems as given and uniqueItems when true, as the translation of the
\* schema without items; when items is inline the output's items is the
\* translation of that schema, and fails only when that translation does.
C25_ArrayItemsReferenceIsOmitted ==
    (translated.kind = "Some" /\ input_schema.schema_kind = "Array") =>
        LET array == input_schema.array
            result == translated.value.result
        IN  /\ (array.items.kind = "Some" /\ array.items.value.kind = "Reference") =>
                   /\ result.status = "Ok"
                   /\ "items" \notin DOMAIN translation
                   /\ translation["type"] = "array"
                   /\ ("minItems" \in DOMAIN translation) <=> (array.min_items.kind = "Some")
                   /\ ("maxItems" \in DOMAIN translation) <=> (array.max_items.kind = "Some")
                   /\ ("uniqueItems" \in DOMAIN translation) <=> array.unique_items
                   /\ array.min_items.kind = "Some"
                          => translation["minItems"] = array.min_items.value
                   /\ array.max_items.kind = "Some"
                          => translation["maxItems"] = array.max_items.value
                   /\ result = to_json_schema([input_schema EXCEPT !.array.items = None])
            /\ (array.items.kind = "Some" /\ array.items.value.kind = "Item") =>
                   LET items == to_json_schema(array.items.value.item)
                   IN  IF items.status = "Ok"
                       THEN /\ result.status = "Ok"
                            /\ translation["items"] = items.value
                       ELSE result.status = "Panic"

\* C25 witness: an array with minItems, maxItems and uniqueItems whose items
\* is a reference was translated.
C25_Witness ==
    /\ translated.kind = "Some"
    /\ input_schema = ArraySchema(Some(SCHEMA_REFERENCE), Some(1), Some(2), TRUE)
    /\ translated.value.result.status = "Ok"
    /\ DOMAIN translation = {"type", "minItems", "maxItems", "uniqueItems"}

\* C26: translating an Object schema whose additionalProperties is an indirect
\* schema reference does not fail: the reference is dropped, and the output is
\* that of the schema without additionalProperties.
C26_AdditionalPropertiesReferenceIsDropped ==
    (/\ translated.kind = "Some"
     /\ input_schema.schema_kind = "Object"
     /\ input_schema.object.additional_properties
            = Some(AdditionalSchema(SCHEMA_REFERENCE))
     /\ inlined(input_schema) = input_schema) =>
        /\ translated.value.result.status = "Ok"
        /\ translated.value.result
               = to_json_schema([input_schema EXCEPT
                                    !.object.additional_properties = None])

\* C26 witness: the translation of an object without properties whose
\* additionalProperties is a reference panicked.
C26_Witness ==
    /\ translated.kind = "Some"
    /\ input_schema = ObjectSchema(<<>>, Some(AdditionalSchema(SCHEMA_REFERENCE)))
    /\ translated.value.result.status = "Panic"

====
